---- MODULE Spec2Model ----
(***************************************************************************)
(* Root-finding solvers of src/src/core and src/src/algorithms as a state  *)
(* machine.  A solver instance is constructed, solve() is run step by step *)
(* (seed, one loop iteration per step, the code after the loop), and the   *)
(* SolverResult objects handed to the caller are kept, together with the   *)
(* list object their iteration_history field refers to.                    *)
(*                                                                         *)
(* Numbers.  A Python float is modelled by an integer v standing for       *)
(* v / Scale, finite for |v| <= MaxFloat, and by the three non-finite      *)
(* values PInf, NInf and NaN.  Every arithmetic operation rounds to the    *)
(* grid (to nearest) and overflows to an infinity, as IEEE arithmetic      *)
(* does at a much finer grid and a much larger range.  A product or a     *)
(* quotient of nonzero finite values is never rounded to zero (doubles     *)
(* lose one only below 1e-308).  Signed zeros are not distinguished.       *)
(***************************************************************************)
EXTENDS Integers, Sequences, FiniteSets, TLC

\* ------------------------------------------------------------------------
\* Bounds of the model
\* ------------------------------------------------------------------------
Scale == 16
MaxFloat == 30000
MaxIter == 4
MaxCalls == 2
MaxExtra == 1

\* ------------------------------------------------------------------------
\* Floats
\* ------------------------------------------------------------------------
PInf == MaxFloat + 1
NInf == 0 - PInf
NaN == MaxFloat + 2
None == MaxFloat + 3

isnan(v) == v = NaN
isinf(v) == v = PInf \/ v = NInf
isfinite(v) == ~isnan(v) /\ ~isinf(v)

Magnitude(n) == IF n < 0 THEN 0 - n ELSE n
Sign(n) == IF n > 0 THEN 1 ELSE IF n < 0 THEN 0 - 1 ELSE 0
\* n / d rounded to nearest, for n >= 0 and d > 0
RoundDiv(n, d) == (2 * n + d) \div (2 * d)
\* a finite result outside the finite range overflows to an infinity
Overflow(n) == IF n > MaxFloat THEN PInf ELSE IF n < 0 - MaxFloat THEN NInf ELSE n

Neg(a) == IF isnan(a) THEN NaN ELSE 0 - a
Abs(a) == IF isnan(a) THEN NaN ELSE Magnitude(a)
Add(a, b) ==
    IF isnan(a) \/ isnan(b) THEN NaN
    ELSE IF isinf(a) /\ isinf(b) THEN (IF a = b THEN a ELSE NaN)
    ELSE IF isinf(a) THEN a
    ELSE IF isinf(b) THEN b
    ELSE Overflow(a + b)
Sub(a, b) == Add(a, Neg(b))
Mul(a, b) ==
    IF isnan(a) \/ isnan(b) THEN NaN
    ELSE IF isinf(a) \/ isinf(b)
         THEN (IF a = 0 \/ b = 0 THEN NaN
               ELSE IF Sign(a) * Sign(b) > 0 THEN PInf ELSE NInf)
    ELSE IF a = 0 \/ b = 0 THEN 0
    ELSE LET q == RoundDiv(Magnitude(a) * Magnitude(b), Scale)
             m == IF q = 0 THEN 1 ELSE q
         IN  Overflow(Sign(a) * Sign(b) * m)
\* a / b.  Python raises ZeroDivisionError for b = 0: the callers test for it
\* and never use the value this gives for b = 0
Div(a, b) ==
    IF isnan(a) \/ isnan(b) THEN NaN
    ELSE IF isinf(a) THEN (IF isinf(b) THEN NaN
                           ELSE IF Sign(a) * Sign(b) > 0 THEN PInf ELSE NInf)
    ELSE IF b = 0 THEN NaN
    ELSE IF isinf(b) \/ a = 0 THEN 0
    ELSE LET q == RoundDiv(Magnitude(a) * Scale, Magnitude(b))
             m == IF q = 0 THEN 1 ELSE q
         IN  Overflow(Sign(a) * Sign(b) * m)
\* comparisons: every comparison with NaN is false
Lt(a, b) == ~isnan(a) /\ ~isnan(b) /\ a < b
Gt(a, b) == Lt(b, a)
Ge(a, b) == ~isnan(a) /\ ~isnan(b) /\ a >= b
Min(a, b) == IF Lt(b, a) THEN b ELSE a

One == Scale
Two == 2 * Scale
Four == 4 * Scale
\* the 1e-15 of the degeneracy tests and of the relative error: the smallest
\* positive value of the grid
Tiny == 1
\* the 1e-10 below which Muller drops an imaginary part
ImagTiny == 1
\* the 1e10 of the divergence tests.  As in the code, Tiny * Huge < 1: a value
\* of ordinary size divided by a derivative just above Tiny exceeds Huge
Huge == 8 * Scale

RECURSIVE SqrtSearch(_, _, _)
SqrtSearch(n, lo, hi) ==
    IF lo >= hi THEN lo
    ELSE LET mid == (lo + hi + 1) \div 2
         IN  IF mid * mid <= n THEN SqrtSearch(n, mid, hi)
             ELSE SqrtSearch(n, lo, mid - 1)
\* integer square root (rounded down) of n >= 0
isqrt(n) == SqrtSearch(n, 0, IF n < 65536 THEN 255 ELSE 46340)

\* ------------------------------------------------------------------------
\* Complex numbers: pairs <<real, imag>> of floats
\* ------------------------------------------------------------------------
complex(x) == <<x, 0>>
CAdd(z, w) == <<Add(z[1], w[1]), Add(z[2], w[2])>>
CSub(z, w) == <<Sub(z[1], w[1]), Sub(z[2], w[2])>>
CMul(z, w) == <<Sub(Mul(z[1], w[1]), Mul(z[2], w[2])),
               Add(Mul(z[1], w[2]), Mul(z[2], w[1]))>>
CIsZero(z) == z[1] = 0 /\ z[2] = 0
\* z / w for w # 0 (Smith's algorithm, as CPython's _Py_c_quot)
CDiv(z, w) ==
    IF Ge(Abs(w[1]), Abs(w[2]))
    THEN LET ratio == Div(w[2], w[1])
             denom == Add(w[1], Mul(w[2], ratio))
         IN  IF denom = 0 THEN <<NaN, NaN>>
             ELSE <<Div(Add(z[1], Mul(z[2], ratio)), denom),
                    Div(Sub(z[2], Mul(z[1], ratio)), denom)>>
    ELSE IF Ge(Abs(w[2]), Abs(w[1]))
    THEN LET ratio == Div(w[1], w[2])
             denom == Add(Mul(w[1], ratio), w[2])
         IN  IF denom = 0 THEN <<NaN, NaN>>
             ELSE <<Div(Add(Mul(z[1], ratio), z[2]), denom),
                    Div(Sub(Mul(z[2], ratio), z[1]), denom)>>
    ELSE <<NaN, NaN>>
\* abs(z): hypot; CAbsOverflows(z) is the case in which Python raises
\* OverflowError (finite components, infinite magnitude)
hypot(x, y) ==
    IF y = 0 THEN Magnitude(x) ELSE IF x = 0 THEN Magnitude(y) ELSE isqrt(x * x + y * y)
CAbsOverflows(z) == isfinite(z[1]) /\ isfinite(z[2]) /\ hypot(z[1], z[2]) > MaxFloat
CAbs(z) ==
    IF isinf(z[1]) \/ isinf(z[2]) THEN PInf
    ELSE IF isnan(z[1]) \/ isnan(z[2]) THEN NaN
    ELSE Overflow(hypot(z[1], z[2]))
\* cmath.sqrt: principal square root
CSqrt(z) ==
    IF isinf(z[2]) THEN <<PInf, z[2]>>
    ELSE IF z[1] = NInf THEN (IF isnan(z[2]) THEN <<NaN, PInf>>
                              ELSE <<0, IF z[2] < 0 THEN NInf ELSE PInf>>)
    ELSE IF z[1] = PInf THEN (IF isnan(z[2]) THEN <<PInf, NaN>> ELSE <<PInf, 0>>)
    ELSE IF isnan(z[1]) \/ isnan(z[2]) THEN <<NaN, NaN>>
    ELSE IF z[1] = 0 /\ z[2] = 0 THEN <<0, 0>>
    ELSE LET ax == Magnitude(z[1])
             ay == Magnitude(z[2])
             s0 == isqrt((Scale * (ax + hypot(ax, ay))) \div 2)
             s  == IF s0 = 0 THEN 1 ELSE s0
             d  == RoundDiv(ay * Scale, 2 * s)
         IN  IF z[1] >= 0 THEN <<s, IF z[2] < 0 THEN 0 - d ELSE d>>
             ELSE <<d, IF z[2] < 0 THEN 0 - s ELSE s>>
\* z ** 2 (CPython's c_powu: 1 * (z * z)); CPowOverflows(z) is the case in
\* which Python raises OverflowError
CPow2(z) == CMul(complex(One), CMul(z, z))
CPowOverflows(z) == isinf(CPow2(z)[1]) \/ isinf(CPow2(z)[2])

\* ------------------------------------------------------------------------
\* The caller's inputs
\* ------------------------------------------------------------------------
Kinds == {"Bisection", "FalsePosition", "NewtonRaphson", "Secant", "FixedPoint", "Muller"}

\* The caller-supplied functions: polynomials, given by their coefficients
\* (floats), highest degree first.  For a FixedPoint solver the polynomial is g.
PolyX2m4   == <<One, 0, 0 - Four>>            \* x^2 - 4
PolyCubic  == <<One, 0, 0 - One, 0 - One>>    \* x^3 - x - 1
PolyX2pXp1 == <<One, One, One>>               \* x^2 + x + 1
PolyX      == <<One, 0>>                      \* x
PolyShallow == <<Tiny, 0, 0, Four>>         \* x^3 / Scale + 4
PolyHalf   == <<One \div 2, One>>             \* x / 2 + 1
PolySlow   == <<One - Tiny, 0>>               \* (1 - 1/Scale) x
PolyStationary == <<One, 0, 0 - 3 * One, 3 * One>>   \* x^3 - 3x + 3
Functions == {PolyX2m4, PolyCubic, PolyX2pXp1, PolyX, PolyShallow, PolyHalf, PolySlow,
              PolyStationary}

\* the points the caller passes as bracket ends, initial guesses and seeds
Points == {0 - Two, 0 - One, 0, One, Two}
\* the tolerances: the finest the grid can tell from zero, and a coarser one
MaxTol == 3
Tolerances == {Tiny + 1, MaxTol}
\* what time.time() can measure between the entry and the return
Elapsed == {0, Tiny}
\* the smallest accepted cap and the largest of the model
Iterations == {1, MaxIter}

\* Horner evaluation of the polynomial fn at the float x
RECURSIVE Horner(_, _, _, _)
Horner(fn, x, k, acc) ==
    IF k > Len(fn) THEN acc ELSE Horner(fn, x, k + 1, Add(Mul(acc, x), fn[k]))
function(fn, x) == Horner(fn, x, 2, fn[1])
\* the same polynomial at a complex point
RECURSIVE CHorner(_, _, _, _)
CHorner(fn, z, k, acc) ==
    IF k > Len(fn) THEN acc
    ELSE CHorner(fn, z, k + 1, CAdd(CMul(acc, z), complex(fn[k])))
cfunction(fn, z) == CHorner(fn, z, 2, complex(fn[1]))
\* the analytical derivative of the polynomial fn, as the caller supplies it
DerivativeCoefficients(fn) ==
    IF Len(fn) = 1 THEN <<0>>
    ELSE [k \in 1..(Len(fn) - 1) |-> Overflow(fn[k] * (Len(fn) - k))]
derivative(fn, x) == function(DerivativeCoefficients(fn), x)

\* ------------------------------------------------------------------------
\* Records
\* ------------------------------------------------------------------------
\* IterationResult (execution_time keeps its default 0.0)
IterationResult(iteration, x_value, f_value, error, relative_error) ==
    [iteration |-> iteration, x_value |-> x_value, f_value |-> f_value,
     error |-> error, relative_error |-> relative_error, execution_time |-> 0]

\* what a solve() hands to its return statement; execution_time is added when
\* the call returns
NoReturn == [root |-> None, iterations |-> 0 - 1, convergence_achieved |-> FALSE,
             final_error |-> None]
ReturnValue(root, iterations, convergence_achieved, final_error) ==
    [root |-> root, iterations |-> iterations,
     convergence_achieved |-> convergence_achieved, final_error |-> final_error]

NoLocals == [iteration |-> 0]

\* ------------------------------------------------------------------------
\* BaseSolver
\* ------------------------------------------------------------------------
\* BaseSolver.__init__: the fields of a fresh object (s is the record of the
\* object not yet constructed)
BaseSolver_init(s) ==
    [s EXCEPT !.iteration_history = <<>>, !.function_evaluations = 0,
              !.derivative_evaluations = 0]

\* a reset that forgets to reset
reset_counters_forgetful(s) == s
reset_counters(s) ==
    [s EXCEPT !.iteration_history = <<>>, !.function_evaluations = 0,
              !.derivative_evaluations = 0]

\* an add that keeps only the newest entry
add_iteration_result_overwriting(s, iteration, x_value, f_value, error, relative_error) ==
    [s EXCEPT !.iteration_history =
        <<IterationResult(iteration, x_value, f_value, error, relative_error)>>]
add_iteration_result(s, iteration, x_value, f_value, error, relative_error) ==
    [s EXCEPT !.iteration_history =
        Append(@, IterationResult(iteration, x_value, f_value, error, relative_error))]

\* evaluate_function: the counter goes up by one and the caller's function is
\* invoked once; Evaluated(s, n) is the object after n such calls
Evaluated(s, n) ==
    [s EXCEPT !.function_evaluations = @ + n, !.invocations = @ + n]

\* a convergence test that forgets the absolute value of the residual
check_convergence_signed(c, x_new, x_old, f_value) ==
    \/ Lt(f_value, c.tolerance)
    \/ Lt(Abs(Sub(x_new, x_old)), Mul(c.tolerance, Add(One, Abs(x_new))))
check_convergence(c, x_new, x_old, f_value) ==
    \/ Lt(Abs(f_value), c.tolerance)
    \/ Lt(Abs(Sub(x_new, x_old)), Mul(c.tolerance, Add(One, Abs(x_new))))

\* calculate_errors: <<absolute_error, relative_error>>
calculate_errors(x_new, x_old) ==
    LET absolute_error == Abs(Sub(x_new, x_old))
    IN  <<absolute_error,
          IF x_new # 0 THEN Div(absolute_error, Add(Abs(x_new), Tiny))
          ELSE absolute_error>>

\* leaving solve(): by a return statement or by an exception
Return(s, root, iterations, convergence_achieved, final_error) ==
    [s EXCEPT !.pc = "returning",
              !.ret = ReturnValue(root, iterations, convergence_achieved, final_error)]
Raise(s, exception) == [s EXCEPT !.pc = "raised", !.exc = exception]

\* ------------------------------------------------------------------------
\* BisectionSolver
\* ------------------------------------------------------------------------
\* __init__ of the two bracketing solvers: validates the bracket, orders it
BracketInit(c, s) ==
    LET s1 == Evaluated(BaseSolver_init(s), 2)
        fa == function(c.function, c.p0)
        fb == function(c.function, c.p1)
    IN  IF Gt(Mul(fa, fb), 0)
        THEN [s1 EXCEPT !.pc = "failed", !.exc = "ValueError"]
        ELSE [s1 EXCEPT !.pc = "idle",
                        !.a = IF Gt(c.p0, c.p1) THEN c.p1 ELSE c.p0,
                        !.b = IF Gt(c.p0, c.p1) THEN c.p0 ELSE c.p1]
BisectionSolver_init(c, s) == BracketInit(c, s)

\* solve() up to the loop: reset, the two endpoint evaluations, entry 0
BracketStart(c, s) ==
    LET s1 == Evaluated(reset_counters(s), 2)
        fa == function(c.function, s.a)
        fb == function(c.function, s.b)
        s2 == add_iteration_result(s1, 0, s.a, fa, Abs(Sub(s.b, s.a)), None)
    IN  [s2 EXCEPT !.pc = "loop",
                   !.loc = [iteration |-> 1, a |-> s.a, b |-> s.b, fa |-> fa, fb |-> fb]]
BisectionSolver_start(c, s) == BracketStart(c, s)

\* a pass that replaces the other endpoint: a when f(a) * f(c) < 0, else b
BisectionSolver_iterate_crossed(c, s) ==
    LET l  == s.loc
        mid == Div(Add(l.a, l.b), Two)
        fc == function(c.function, mid)
        error == Div(Abs(Sub(l.b, l.a)), Two)
        relative_error == Div(error, Add(Abs(mid), Tiny))
        s1 == add_iteration_result(Evaluated(s, 1), l.iteration, mid, fc,
                                   error, relative_error)
    IN  IF Lt(Abs(fc), c.tolerance) \/ Lt(error, c.tolerance)
        THEN Return(s1, mid, l.iteration, TRUE, error)
        ELSE IF Lt(Mul(l.fa, fc), 0)
        THEN [s1 EXCEPT !.loc = [l EXCEPT !.iteration = @ + 1, !.a = mid, !.fa = fc]]
        ELSE [s1 EXCEPT !.loc = [l EXCEPT !.iteration = @ + 1, !.b = mid, !.fb = fc]]
\* one pass through the body of the for loop
BisectionSolver_iterate(c, s) ==
    LET l  == s.loc
        mid == Div(Add(l.a, l.b), Two)
        fc == function(c.function, mid)
        error == Div(Abs(Sub(l.b, l.a)), Two)
        relative_error == Div(error, Add(Abs(mid), Tiny))
        s1 == add_iteration_result(Evaluated(s, 1), l.iteration, mid, fc,
                                   error, relative_error)
    IN  IF Lt(Abs(fc), c.tolerance) \/ Lt(error, c.tolerance)
        THEN Return(s1, mid, l.iteration, TRUE, error)
        ELSE IF Lt(Mul(l.fa, fc), 0)
        THEN [s1 EXCEPT !.loc = [l EXCEPT !.iteration = @ + 1, !.b = mid, !.fb = fc]]
        ELSE [s1 EXCEPT !.loc = [l EXCEPT !.iteration = @ + 1, !.a = mid, !.fa = fc]]

\* the code after the loop: maximum iterations reached
BisectionSolver_exhausted(c, s) ==
    LET l == s.loc
    IN  Return(s, Div(Add(l.a, l.b), Two), c.max_iterations, FALSE,
               Div(Abs(Sub(l.b, l.a)), Two))

\* ------------------------------------------------------------------------
\* FalsePositionSolver
\* ------------------------------------------------------------------------
FalsePositionSolver_init(c, s) == BracketInit(c, s)
FalsePositionSolver_start(c, s) == BracketStart(c, s)

\* x_new = a - (fa * (b - a)) / (fb - fa), for fb - fa # 0
Interpolate(l) == Sub(l.a, Div(Mul(l.fa, Sub(l.b, l.a)), Sub(l.fb, l.fa)))

FalsePositionSolver_iterate(c, s) ==
    LET l == s.loc
        x_new == Interpolate(l)
        f_new == function(c.function, x_new)
        error == Min(Abs(Sub(x_new, l.a)), Abs(Sub(x_new, l.b)))
        relative_error == Div(error, Add(Abs(x_new), Tiny))
        s1 == add_iteration_result(Evaluated(s, 1), l.iteration, x_new, f_new,
                                   error, relative_error)
    IN  IF Sub(l.fb, l.fa) = 0 THEN Raise(s, "ZeroDivisionError")
        ELSE IF Lt(Abs(f_new), c.tolerance) \/ Lt(error, c.tolerance)
        THEN Return(s1, x_new, l.iteration, TRUE, error)
        ELSE IF Lt(Mul(l.fa, f_new), 0)
        THEN [s1 EXCEPT !.loc = [l EXCEPT !.iteration = @ + 1, !.b = x_new, !.fb = f_new]]
        ELSE [s1 EXCEPT !.loc = [l EXCEPT !.iteration = @ + 1, !.a = x_new, !.fa = f_new]]

FalsePositionSolver_exhausted(c, s) ==
    LET l == s.loc
        x_new == Interpolate(l)
    IN  IF Sub(l.fb, l.fa) = 0 THEN Raise(s, "ZeroDivisionError")
        ELSE Return(s, x_new, c.max_iterations, FALSE,
                    Min(Abs(Sub(x_new, l.a)), Abs(Sub(x_new, l.b))))

\* ------------------------------------------------------------------------
\* NewtonRaphsonSolver
\* ------------------------------------------------------------------------
\* __init__: without a derivative it builds NumericalDerivative(self.function),
\* a class whose constructor takes no argument
NewtonRaphsonSolver_init(c, s) ==
    LET s1 == BaseSolver_init(s)
    IN  IF c.derivative = "None"
        THEN [s1 EXCEPT !.pc = "failed", !.exc = "TypeError"]
        ELSE [s1 EXCEPT !.pc = "idle"]

NewtonRaphsonSolver_start(c, s) ==
    LET s1 == Evaluated(reset_counters(s), 1)
        x == c.p0
        f_x == function(c.function, x)
        s2 == add_iteration_result(s1, 0, x, f_x, None, None)
    IN  [s2 EXCEPT !.pc = "loop", !.loc = [iteration |-> 1, x |-> x, f_x |-> f_x]]

\* NewtonRaphsonSolver.evaluate_derivative (overrides BaseSolver's): the
\* supplied derivative is invoked, no counter is touched
NewtonRaphsonSolver_evaluate_derivative(s) ==
    [s EXCEPT !.derivative_invocations = @ + 1]

\* a pass that reports its own index when the derivative vanishes
NewtonRaphsonSolver_iterate_undecremented(c, s) ==
    LET l == s.loc
        s0 == NewtonRaphsonSolver_evaluate_derivative(s)
        f_prime_x == derivative(c.function, l.x)
        x_new == Sub(l.x, Div(l.f_x, f_prime_x))
        f_new == function(c.function, x_new)
        errors == calculate_errors(x_new, l.x)
        s1 == add_iteration_result(Evaluated(s0, 1), l.iteration, x_new, f_new,
                                   errors[1], errors[2])
    IN  IF c.derivative = "None" THEN Raise(s, "TypeError")
        ELSE IF Lt(Abs(f_prime_x), Tiny)
        THEN Return(s0, l.x, l.iteration, FALSE, Abs(l.f_x))
        ELSE IF check_convergence(c, x_new, l.x, f_new)
        THEN Return(s1, x_new, l.iteration, TRUE, errors[1])
        ELSE IF Gt(Abs(x_new), Huge) \/ isnan(x_new) \/ isinf(x_new)
        THEN Return(s1, x_new, l.iteration, FALSE, errors[1])
        ELSE [s1 EXCEPT !.loc = [l EXCEPT !.iteration = @ + 1, !.x = x_new, !.f_x = f_new]]
NewtonRaphsonSolver_iterate(c, s) ==
    LET l == s.loc
        s0 == NewtonRaphsonSolver_evaluate_derivative(s)
        f_prime_x == derivative(c.function, l.x)
        x_new == Sub(l.x, Div(l.f_x, f_prime_x))
        f_new == function(c.function, x_new)
        errors == calculate_errors(x_new, l.x)
        s1 == add_iteration_result(Evaluated(s0, 1), l.iteration, x_new, f_new,
                                   errors[1], errors[2])
    IN  IF c.derivative = "None" THEN Raise(s, "TypeError")
        ELSE IF Lt(Abs(f_prime_x), Tiny)
        THEN Return(s0, l.x, l.iteration - 1, FALSE, Abs(l.f_x))
        ELSE IF check_convergence(c, x_new, l.x, f_new)
        THEN Return(s1, x_new, l.iteration, TRUE, errors[1])
        ELSE IF Gt(Abs(x_new), Huge) \/ isnan(x_new) \/ isinf(x_new)
        THEN Return(s1, x_new, l.iteration, FALSE, errors[1])
        ELSE [s1 EXCEPT !.loc = [l EXCEPT !.iteration = @ + 1, !.x = x_new, !.f_x = f_new]]

\* an exhaustion that reports the loop counter instead of the cap
NewtonRaphsonSolver_exhausted_counter(c, s) ==
    Return(s, s.loc.x, s.loc.iteration, FALSE, Abs(s.loc.f_x))
NewtonRaphsonSolver_exhausted(c, s) ==
    Return(s, s.loc.x, c.max_iterations, FALSE, Abs(s.loc.f_x))

\* ------------------------------------------------------------------------
\* SecantSolver
\* ------------------------------------------------------------------------
SecantSolver_init(c, s) == [BaseSolver_init(s) EXCEPT !.pc = "idle"]

SecantSolver_start(c, s) ==
    LET s1 == Evaluated(reset_counters(s), 2)
        f_prev == function(c.function, c.p0)
        f_curr == function(c.function, c.p1)
        s2 == add_iteration_result(s1, 0, c.p0, f_prev, None, None)
        s3 == add_iteration_result(s2, 1, c.p1, f_curr, None, None)
    IN  [s3 EXCEPT !.pc = "loop",
                   !.loc = [iteration |-> 2, x_prev |-> c.p0, x_curr |-> c.p1,
                            f_prev |-> f_prev, f_curr |-> f_curr, error |-> None]]

\* a pass that evaluates f once more before it breaks on equal values
SecantSolver_iterate_probing(c, s) ==
    LET l == s.loc
        slope == Div(Sub(l.f_curr, l.f_prev), Sub(l.x_curr, l.x_prev))
        x_new == Sub(l.x_curr, Div(l.f_curr, slope))
        f_new == function(c.function, x_new)
        errors == calculate_errors(x_new, l.x_curr)
        s1 == add_iteration_result(Evaluated(s, 1), l.iteration, x_new, f_new,
                                   errors[1], errors[2])
    IN  IF Lt(Abs(Sub(l.f_curr, l.f_prev)), Tiny)
        THEN [Evaluated(s, 1) EXCEPT !.pc = "after_loop"]
        ELSE IF Sub(l.x_curr, l.x_prev) = 0 \/ slope = 0
        THEN Raise(s, "ZeroDivisionError")
        ELSE IF check_convergence(c, x_new, l.x_curr, f_new)
        THEN Return(s1, x_new, l.iteration, TRUE, errors[1])
        ELSE [s1 EXCEPT !.loc = [iteration |-> l.iteration + 1,
                                 x_prev |-> l.x_curr, x_curr |-> x_new,
                                 f_prev |-> l.f_curr, f_curr |-> f_new,
                                 error |-> errors[1]]]
SecantSolver_iterate(c, s) ==
    LET l == s.loc
        slope == Div(Sub(l.f_curr, l.f_prev), Sub(l.x_curr, l.x_prev))
        x_new == Sub(l.x_curr, Div(l.f_curr, slope))
        f_new == function(c.function, x_new)
        errors == calculate_errors(x_new, l.x_curr)
        s1 == add_iteration_result(Evaluated(s, 1), l.iteration, x_new, f_new,
                                   errors[1], errors[2])
    IN  IF Lt(Abs(Sub(l.f_curr, l.f_prev)), Tiny)
        THEN [s EXCEPT !.pc = "after_loop"]
        ELSE IF Sub(l.x_curr, l.x_prev) = 0 \/ slope = 0
        THEN Raise(s, "ZeroDivisionError")
        ELSE IF check_convergence(c, x_new, l.x_curr, f_new)
        THEN Return(s1, x_new, l.iteration, TRUE, errors[1])
        ELSE [s1 EXCEPT !.loc = [iteration |-> l.iteration + 1,
                                 x_prev |-> l.x_curr, x_curr |-> x_new,
                                 f_prev |-> l.f_curr, f_curr |-> f_new,
                                 error |-> errors[1]]]

\* the code after the loop, reached by exhaustion and by the break
SecantSolver_exhausted(c, s) ==
    Return(s, s.loc.x_curr, c.max_iterations, FALSE,
           IF s.loc.error # None THEN s.loc.error ELSE Abs(s.loc.f_curr))

\* ------------------------------------------------------------------------
\* FixedPointSolver (c.function is g)
\* ------------------------------------------------------------------------
FixedPointSolver_init(c, s) == [BaseSolver_init(s) EXCEPT !.pc = "idle"]

\* g is invoked directly, not through evaluate_function
Invoked(s, n) == [s EXCEPT !.invocations = @ + n]

FixedPointSolver_start(c, s) ==
    LET s1 == Invoked(reset_counters(s), 1)
        x == c.p0
        f_x == Sub(x, function(c.function, x))
        s2 == add_iteration_result(s1, 0, x, f_x, None, None)
    IN  [s2 EXCEPT !.pc = "loop", !.loc = [iteration |-> 1, x |-> x, error |-> None]]

FixedPointSolver_iterate(c, s) ==
    LET l == s.loc
        x_new == function(c.function, l.x)
        s0 == [Invoked(s, 2) EXCEPT !.function_evaluations = @ + 1]
        f_new == Sub(x_new, function(c.function, x_new))
        errors == calculate_errors(x_new, l.x)
        s1 == add_iteration_result(s0, l.iteration, x_new, f_new, errors[1], errors[2])
    IN  IF Lt(errors[1], c.tolerance) \/ Lt(Abs(f_new), c.tolerance)
        THEN Return(s1, x_new, l.iteration, TRUE, errors[1])
        ELSE IF Gt(Abs(x_new), Huge) \/ isnan(x_new) \/ isinf(x_new)
        THEN Return(s1, x_new, l.iteration, FALSE, errors[1])
        ELSE [s1 EXCEPT !.loc = [iteration |-> l.iteration + 1, x |-> x_new,
                                 error |-> errors[1]]]

\* after the loop; without a pass through the loop neither error nor f_new
\* is bound
FixedPointSolver_exhausted(c, s) ==
    IF s.loc.error # None
    THEN Return(s, s.loc.x, c.max_iterations, FALSE, s.loc.error)
    ELSE Raise(s, "NameError")

\* ------------------------------------------------------------------------
\* MullerSolver
\* ------------------------------------------------------------------------
MullerSolver_init(c, s) == [BaseSolver_init(s) EXCEPT !.pc = "idle"]

\* x.real if abs(x.imag) < 1e-10 else x: a float or a complex number
RealIfReal(z) ==
    IF Lt(Abs(z[2]), ImagTiny) THEN [type |-> "float", real |-> z[1], imag |-> 0]
    ELSE [type |-> "complex", real |-> z[1], imag |-> z[2]]

MullerSolver_start(c, s) ==
    LET s1 == Evaluated(reset_counters(s), 3)
        x == <<complex(c.p0), complex(c.p1), complex(c.p2)>>
        f == <<complex(function(c.function, c.p0)), complex(function(c.function, c.p1)),
               complex(function(c.function, c.p2))>>
        s2 == add_iteration_result(s1, 0, x[1][1], CAbs(f[1]), None, None)
        s3 == add_iteration_result(s2, 1, x[2][1], CAbs(f[2]), None, None)
        s4 == add_iteration_result(s3, 2, x[3][1], CAbs(f[3]), None, None)
    IN  IF CAbsOverflows(f[1]) THEN Raise(s1, "OverflowError")
        ELSE IF CAbsOverflows(f[2]) THEN Raise(s2, "OverflowError")
        ELSE IF CAbsOverflows(f[3]) THEN Raise(s3, "OverflowError")
        ELSE [s4 EXCEPT !.pc = "loop",
                        !.loc = [iteration |-> 3, x |-> x, f |-> f, error |-> None]]

\* One pass through the body of the loop.  The values of the pass are
\* computed in the order of the code, each stage handing its values to the
\* next: the divided differences, the coefficients of the parabola, the
\* denominator, the step.
MullerDenominator(b, root) ==
    IF Gt(CAbs(CAdd(b, root)), CAbs(CSub(b, root))) THEN CAdd(b, root) ELSE CSub(b, root)
MullerCoefficients(l, h0, h1, delta0, delta1) ==
    LET a == CDiv(CSub(delta1, delta0), CAdd(h1, h0))
    IN  <<a, CAdd(CMul(a, h1), delta1), l.f[3]>>
MullerDiscriminant(abc) ==
    CSub(CPow2(abc[2]), CMul(CMul(complex(Four), abc[1]), abc[3]))
MullerRoots(b, root) ==
    [b |-> b, plus |-> CAdd(b, root), minus |-> CSub(b, root),
     denominator |-> MullerDenominator(b, root)]
MullerStep(l, h0, h1) ==
    LET abc == MullerCoefficients(l, h0, h1,
                                  CDiv(CSub(l.f[2], l.f[1]), h0),
                                  CDiv(CSub(l.f[3], l.f[2]), h1))
        r == MullerRoots(abc[2], CSqrt(MullerDiscriminant(abc)))
    IN  [h0 |-> h0, h1 |-> h1, b |-> r.b, plus |-> r.plus, minus |-> r.minus,
         denominator |-> r.denominator,
         dx |-> CDiv(CMul(complex(0 - Two), abc[3]), r.denominator)]

\* the part of the pass after the step dx is known
MullerAdvance(c, s, l, dx, x_new, f_new, error) ==
    LET s0 == Evaluated(s, 1)
        s1 == add_iteration_result(s0, l.iteration, x_new[1], CAbs(f_new), error,
                                   Div(error, Add(CAbs(x_new), Tiny)))
    IN  IF CAbsOverflows(dx) \/ CAbsOverflows(x_new) \/ CAbsOverflows(f_new)
        THEN Raise(s0, "OverflowError")
        ELSE IF Lt(error, c.tolerance) \/ Lt(CAbs(f_new), c.tolerance)
        THEN Return(s1, RealIfReal(x_new), l.iteration, TRUE, error)
        ELSE IF Gt(CAbs(x_new), Huge)
        THEN Return(s1, RealIfReal(x_new), l.iteration, FALSE, error)
        ELSE [s1 EXCEPT !.loc = [iteration |-> l.iteration + 1,
                                 x |-> <<l.x[2], l.x[3], x_new>>,
                                 f |-> <<l.f[2], l.f[3], f_new>>,
                                 error |-> error]]
MullerEvaluate(c, s, l, dx, x_new) ==
    MullerAdvance(c, s, l, dx, x_new, cfunction(c.function, x_new), CAbs(dx))

\* the part of the pass up to the step: the tests that leave the loop
MullerBody(c, s, m) ==
    IF CAbsOverflows(m.h0) THEN Raise(s, "OverflowError")
    ELSE IF Lt(CAbs(m.h0), Tiny) THEN [s EXCEPT !.pc = "after_loop"]
    ELSE IF CAbsOverflows(m.h1) THEN Raise(s, "OverflowError")
    ELSE IF Lt(CAbs(m.h1), Tiny) THEN [s EXCEPT !.pc = "after_loop"]
    ELSE IF CIsZero(CAdd(m.h1, m.h0)) THEN Raise(s, "ZeroDivisionError")
    ELSE IF CPowOverflows(m.b) THEN Raise(s, "OverflowError")
    ELSE IF CAbsOverflows(m.plus) \/ CAbsOverflows(m.minus)
    THEN Raise(s, "OverflowError")
    ELSE IF Lt(CAbs(m.denominator), Tiny) THEN [s EXCEPT !.pc = "after_loop"]
    ELSE MullerEvaluate(c, s, s.loc, m.dx, CAdd(s.loc.x[3], m.dx))

MullerSolver_iterate(c, s) ==
    MullerBody(c, s, MullerStep(s.loc, CSub(s.loc.x[2], s.loc.x[1]),
                                CSub(s.loc.x[3], s.loc.x[2])))

\* the code after the loop, reached by exhaustion and by the three breaks
MullerSolver_exhausted(c, s) ==
    LET l == s.loc
    IN  IF l.error = None /\ CAbsOverflows(l.f[3]) THEN Raise(s, "OverflowError")
        ELSE Return(s, RealIfReal(l.x[3]), c.max_iterations, FALSE,
                    IF l.error # None THEN l.error ELSE CAbs(l.f[3]))

\* ------------------------------------------------------------------------
\* State
\* ------------------------------------------------------------------------
VARIABLES
    cfg,        \* per solver instance: the constructor's arguments
    obj,        \* per solver instance: the object's fields and, while solve()
                \* runs, the position and the local variables of the call
    returned,   \* per solver instance: the SolverResult objects its solve()
                \* calls have returned, oldest first.  The iteration_history
                \* field holds a reference: the instance whose list it is
    observed,   \* per solver instance and returned call: what the caller saw
                \* at the moment of the return (history contents, number of
                \* invocations of its function during the call)
    poly,       \* the call of a PolynomialUtils function: its arguments, the
                \* caller's coefficient list, its position and its outcome
    search      \* the IncrementalSearch object and the call of its method
vars == <<cfg, obj, returned, observed, poly, search>>

\* no call of a utility is in progress
NoCall == [op |-> "none"]

BracketConfigs(kind) ==
    [kind : {kind}, function : Functions, derivative : {"None"},
     p0 : Points, p1 : Points, p2 : {0},
     tolerance : Tolerances, max_iterations : Iterations]
Configs ==
    BracketConfigs("Bisection") \cup BracketConfigs("FalsePosition")
    \cup BracketConfigs("Secant")
    \cup [kind : {"NewtonRaphson"}, function : Functions,
          derivative : {"analytical", "None"},
          p0 : Points, p1 : {0}, p2 : {0},
          tolerance : Tolerances, max_iterations : Iterations]
    \cup [kind : {"FixedPoint"}, function : Functions, derivative : {"None"},
          p0 : Points, p1 : {0}, p2 : {0},
          tolerance : Tolerances, max_iterations : Iterations]
    \cup [kind : {"Muller"}, function : Functions, derivative : {"None"},
          p0 : Points, p1 : Points, p2 : Points,
          tolerance : Tolerances, max_iterations : Iterations]

NewObject ==
    [pc |-> "new", exc |-> "none",
     iteration_history |-> <<>>, function_evaluations |-> 0,
     derivative_evaluations |-> 0,
     a |-> 0, b |-> 0,
     loc |-> NoLocals, ret |-> NoReturn,
     invocations |-> 0, derivative_invocations |-> 0,
     calls |-> 0, extra |-> 0]

\* the solver instances of the program
Instances == {1}

Init ==
    /\ cfg \in [Instances -> Configs]
    /\ obj = [i \in Instances |-> NewObject]
    /\ returned = [i \in Instances |-> <<>>]
    /\ observed = [i \in Instances |-> <<>>]
    /\ poly = NoCall
    /\ search = NoCall

get_method_name(c) ==
    CASE c.kind = "Bisection" -> "Bisection Method"
      [] c.kind = "FalsePosition" -> "False Position Method (Regula Falsi)"
      [] c.kind = "NewtonRaphson" ->
            IF c.derivative # "None"
            THEN "Newton-Raphson Method (analytical derivative)"
            ELSE "Newton-Raphson Method (numerical derivative)"
      [] c.kind = "Secant" -> "Secant Method"
      [] c.kind = "FixedPoint" -> "Fixed-Point Method (Method of Successive Approximation)"
      [] c.kind = "Muller" -> "Muller's Method"

\* the SolverResult a return statement builds from the object s
SolverResult(i, s, elapsed) ==
    [root |-> s.ret.root, iterations |-> s.ret.iterations,
     convergence_achieved |-> s.ret.convergence_achieved,
     final_error |-> s.ret.final_error, execution_time |-> elapsed,
     iteration_history |-> i, method_name |-> get_method_name(cfg[i]),
     function_evaluations |-> s.function_evaluations]

\* the contents of the list a result's iteration_history refers to
HistoryOf(r) == obj[r.iteration_history].iteration_history

\* ------------------------------------------------------------------------
\* Actions
\* ------------------------------------------------------------------------
\* the constructor runs
IsNew(i, kind) ==
    /\ cfg[i].kind = kind
    /\ obj[i].pc = "new"
Constructed(i, s2) ==
    /\ obj' = [obj EXCEPT ![i] = s2]
    /\ UNCHANGED <<cfg, returned, observed, poly, search>>

\* a step of solve() on solvers that keep iteration_history in one list
\* shared by all instances
Step_shared(i, s2) ==
    LET shared == [j \in DOMAIN obj |->
                      IF j = i THEN s2
                      ELSE [obj[j] EXCEPT !.iteration_history = s2.iteration_history]]
    IN  IF s2.pc = "returning"
        THEN \E elapsed \in Elapsed :
                /\ returned' = [returned EXCEPT ![i] = Append(@, SolverResult(i, s2, elapsed))]
                /\ observed' = [observed EXCEPT ![i] =
                       Append(@, [iteration_history |-> s2.iteration_history,
                                  invocations |-> s2.invocations,
                                  derivative_invocations |-> s2.derivative_invocations])]
                /\ obj' = [shared EXCEPT ![i] =
                       [s2 EXCEPT !.pc = "idle", !.ret = NoReturn, !.loc = NoLocals]]
                /\ UNCHANGED <<cfg, poly, search>>
        ELSE /\ obj' = shared
             /\ UNCHANGED <<cfg, returned, observed, poly, search>>
\* a step of solve() leaves the object as s2; a return statement hands the
\* result to the caller
Step(i, s2) ==
    IF s2.pc = "returning"
    THEN \E elapsed \in Elapsed :
            /\ returned' = [returned EXCEPT ![i] = Append(@, SolverResult(i, s2, elapsed))]
            /\ observed' = [observed EXCEPT ![i] =
                   Append(@, [iteration_history |-> s2.iteration_history,
                              invocations |-> s2.invocations,
                              derivative_invocations |-> s2.derivative_invocations])]
            /\ obj' = [obj EXCEPT ![i] =
                   [s2 EXCEPT !.pc = "idle", !.ret = NoReturn, !.loc = NoLocals]]
            /\ UNCHANGED <<cfg, poly, search>>
    ELSE /\ obj' = [obj EXCEPT ![i] = s2]
         /\ UNCHANGED <<cfg, returned, observed, poly, search>>

\* the caller calls solve() on a constructed object
Entered(s) ==
    [s EXCEPT !.calls = @ + 1, !.exc = "none", !.loc = NoLocals, !.extra = 0,
              !.invocations = 0, !.derivative_invocations = 0]
CanStart(i, kind) ==
    /\ cfg[i].kind = kind
    /\ obj[i].pc \in {"idle", "raised"}
    /\ obj[i].calls < MaxCalls
\* a loop that runs one pass too many
InLoop_inclusive(i, kind) ==
    /\ cfg[i].kind = kind
    /\ obj[i].pc = "loop"
    /\ obj[i].loc.iteration <= cfg[i].max_iterations + 1
InLoop(i, kind) ==
    /\ cfg[i].kind = kind
    /\ obj[i].pc = "loop"
    /\ obj[i].loc.iteration <= cfg[i].max_iterations
AfterLoop(i, kind) ==
    /\ cfg[i].kind = kind
    /\ \/ obj[i].pc = "after_loop"
       \/ obj[i].pc = "loop" /\ obj[i].loc.iteration > cfg[i].max_iterations

BisectionConstruct(i) ==
    IsNew(i, "Bisection") /\ Constructed(i, BisectionSolver_init(cfg[i], obj[i]))
BisectionStart(i) ==
    CanStart(i, "Bisection") /\ Step(i, BisectionSolver_start(cfg[i], Entered(obj[i])))
BisectionIterate(i) ==
    InLoop(i, "Bisection") /\ Step(i, BisectionSolver_iterate(cfg[i], obj[i]))
BisectionExhausted(i) ==
    AfterLoop(i, "Bisection") /\ Step(i, BisectionSolver_exhausted(cfg[i], obj[i]))

FalsePositionConstruct(i) ==
    IsNew(i, "FalsePosition") /\ Constructed(i, FalsePositionSolver_init(cfg[i], obj[i]))
FalsePositionStart(i) ==
    CanStart(i, "FalsePosition") /\ Step(i, FalsePositionSolver_start(cfg[i], Entered(obj[i])))
FalsePositionIterate(i) ==
    InLoop(i, "FalsePosition") /\ Step(i, FalsePositionSolver_iterate(cfg[i], obj[i]))
FalsePositionExhausted(i) ==
    AfterLoop(i, "FalsePosition") /\ Step(i, FalsePositionSolver_exhausted(cfg[i], obj[i]))

NewtonRaphsonConstruct(i) ==
    IsNew(i, "NewtonRaphson") /\ Constructed(i, NewtonRaphsonSolver_init(cfg[i], obj[i]))
NewtonRaphsonStart(i) ==
    CanStart(i, "NewtonRaphson") /\ Step(i, NewtonRaphsonSolver_start(cfg[i], Entered(obj[i])))
NewtonRaphsonIterate(i) ==
    InLoop(i, "NewtonRaphson") /\ Step(i, NewtonRaphsonSolver_iterate(cfg[i], obj[i]))
NewtonRaphsonExhausted(i) ==
    AfterLoop(i, "NewtonRaphson") /\ Step(i, NewtonRaphsonSolver_exhausted(cfg[i], obj[i]))

SecantConstruct(i) ==
    IsNew(i, "Secant") /\ Constructed(i, SecantSolver_init(cfg[i], obj[i]))
SecantStart(i) ==
    CanStart(i, "Secant") /\ Step(i, SecantSolver_start(cfg[i], Entered(obj[i])))
SecantIterate(i) ==
    InLoop(i, "Secant") /\ Step(i, SecantSolver_iterate(cfg[i], obj[i]))
SecantExhausted(i) ==
    AfterLoop(i, "Secant") /\ Step(i, SecantSolver_exhausted(cfg[i], obj[i]))

FixedPointConstruct(i) ==
    IsNew(i, "FixedPoint") /\ Constructed(i, FixedPointSolver_init(cfg[i], obj[i]))
FixedPointStart(i) ==
    CanStart(i, "FixedPoint") /\ Step(i, FixedPointSolver_start(cfg[i], Entered(obj[i])))
FixedPointIterate(i) ==
    InLoop(i, "FixedPoint") /\ Step(i, FixedPointSolver_iterate(cfg[i], obj[i]))
FixedPointExhausted(i) ==
    AfterLoop(i, "FixedPoint") /\ Step(i, FixedPointSolver_exhausted(cfg[i], obj[i]))

MullerConstruct(i) ==
    IsNew(i, "Muller") /\ Constructed(i, MullerSolver_init(cfg[i], obj[i]))
MullerStart(i) ==
    CanStart(i, "Muller") /\ Step(i, MullerSolver_start(cfg[i], Entered(obj[i])))
MullerIterate(i) ==
    InLoop(i, "Muller") /\ Step(i, MullerSolver_iterate(cfg[i], obj[i]))
MullerExhausted(i) ==
    AfterLoop(i, "Muller") /\ Step(i, MullerSolver_exhausted(cfg[i], obj[i]))

\* the caller calls reset_counters() between two solve() calls
ResetCounters(i) ==
    /\ obj[i].pc \in {"idle", "raised"}
    /\ obj[i].calls < MaxCalls
    /\ obj' = [obj EXCEPT ![i] = reset_counters(@)]
    /\ UNCHANGED <<cfg, returned, observed, poly, search>>

\* the caller calls add_iteration_result() between two solve() calls
AddIterationResult(i) ==
    /\ obj[i].pc \in {"idle", "raised"}
    /\ obj[i].calls < MaxCalls
    /\ obj[i].extra < MaxExtra
    /\ \E iteration \in 0..MaxExtra :
          obj' = [obj EXCEPT ![i] =
                    [add_iteration_result(@, iteration, One, 0, None, None)
                        EXCEPT !.extra = @ + 1]]
    /\ UNCHANGED <<cfg, returned, observed, poly, search>>

Next ==
    \E i \in Instances :
        \/ BisectionConstruct(i) \/ BisectionStart(i)
        \/ BisectionIterate(i) \/ BisectionExhausted(i)
        \/ FalsePositionConstruct(i) \/ FalsePositionStart(i)
        \/ FalsePositionIterate(i) \/ FalsePositionExhausted(i)
        \/ NewtonRaphsonConstruct(i) \/ NewtonRaphsonStart(i)
        \/ NewtonRaphsonIterate(i) \/ NewtonRaphsonExhausted(i)
        \/ SecantConstruct(i) \/ SecantStart(i)
        \/ SecantIterate(i) \/ SecantExhausted(i)
        \/ FixedPointConstruct(i) \/ FixedPointStart(i)
        \/ FixedPointIterate(i) \/ FixedPointExhausted(i)
        \/ MullerConstruct(i) \/ MullerStart(i)
        \/ MullerIterate(i) \/ MullerExhausted(i)
        \/ ResetCounters(i)
        \/ AddIterationResult(i)

Spec == Init /\ [][Next]_vars

\* ------------------------------------------------------------------------
\* PolynomialUtils
\* ------------------------------------------------------------------------
\* the loop of horners_rule from coefficient k on: result = result * x + c
RECURSIVE HornerLoop(_, _, _, _)
HornerLoop(coefficients, x, k, result) ==
    IF k > Len(coefficients) THEN result
    ELSE HornerLoop(coefficients, x, k + 1, Add(Mul(result, x), coefficients[k]))
\* a horners_rule that reads the coefficients lowest degree first
horners_rule_lowest_first(coefficients, x) ==
    IF coefficients = <<>> THEN 0
    ELSE HornerLoop([k \in 1..Len(coefficients) |-> coefficients[Len(coefficients) + 1 - k]],
                    x, 2, coefficients[Len(coefficients)])
horners_rule(coefficients, x) ==
    IF coefficients = <<>> THEN 0
    ELSE HornerLoop(coefficients, x, 2, coefficients[1])

\* coefficients[:-1]
AllButLast(coefficients) == SubSeq(coefficients, 1, Len(coefficients) - 1)

\* horners_rule_with_derivative: the pair (p, p_prime); p_prime is
\* accumulated over coefficients[:-1] by p_prime = p_prime * x + c
horners_rule_with_derivative(coefficients, x) ==
    IF coefficients = <<>> THEN <<0, 0>>
    ELSE IF Len(coefficients) = 1 THEN <<coefficients[1], 0>>
    ELSE <<HornerLoop(coefficients, x, 2, coefficients[1]),
           HornerLoop(AllButLast(coefficients), x, 2, coefficients[1])>>

\* polynomial_derivative_coefficients: (degree - i) * coeff for coeffs[:-1]
polynomial_derivative_coefficients(coeffs) ==
    IF Len(coeffs) <= 1 THEN <<0>>
    ELSE [k \in 1..(Len(coeffs) - 1) |-> Mul((Len(coeffs) - k) * One, coeffs[k])]

\* the list synthetic_division builds: quotient[0] = coefficients[0],
\* then next_coeff = coefficients[i] + quotient[-1] * root
\* a division loop that subtracts: coefficients[i] - quotient[-1] * root
RECURSIVE DivisionLoop_subtracting(_, _, _, _)
DivisionLoop_subtracting(coefficients, root, k, quotient) ==
    IF k > Len(coefficients) THEN quotient
    ELSE DivisionLoop_subtracting(coefficients, root, k + 1,
             Append(quotient, Sub(coefficients[k], Mul(quotient[Len(quotient)], root))))
RECURSIVE DivisionLoop(_, _, _, _)
DivisionLoop(coefficients, root, k, quotient) ==
    IF k > Len(coefficients) THEN quotient
    ELSE DivisionLoop(coefficients, root, k + 1,
             Append(quotient, Add(coefficients[k], Mul(quotient[Len(quotient)], root))))
\* a synthetic_division that reads the remainder after the pop
synthetic_division_after_pop(coefficients, root) ==
    IF coefficients = <<>>
    THEN [quotient |-> <<>>, remainder |-> 0, coefficients |-> coefficients]
    ELSE IF Len(coefficients) = 1
    THEN [quotient |-> <<>>, remainder |-> coefficients[1], coefficients |-> coefficients]
    ELSE LET quotient == DivisionLoop(coefficients, root, 2, <<coefficients[1]>>)
         IN  [quotient |-> AllButLast(quotient),
              remainder |-> quotient[Len(quotient) - 1],
              coefficients |-> coefficients]
\* synthetic_division: (quotient, remainder) of the division by (x - root);
\* the field coefficients is what the call leaves in the list it was given
synthetic_division(coefficients, root) ==
    IF coefficients = <<>>
    THEN [quotient |-> <<>>, remainder |-> 0, coefficients |-> coefficients]
    ELSE IF Len(coefficients) = 1
    THEN [quotient |-> <<>>, remainder |-> coefficients[1], coefficients |-> coefficients]
    ELSE LET quotient == DivisionLoop(coefficients, root, 2, <<coefficients[1]>>)
         IN  [quotient |-> AllButLast(quotient),
              remainder |-> quotient[Len(quotient)],
              coefficients |-> coefficients]

\* a deflate_polynomial that drops the last coefficient and divides nothing
deflate_polynomial_truncating(coefficients, root, tolerance) ==
    IF Gt(Abs(horners_rule(coefficients, root)), tolerance)
    THEN [exc |-> "ValueError", quotient |-> <<>>, coefficients |-> coefficients]
    ELSE [exc |-> "none", quotient |-> AllButLast(coefficients),
          coefficients |-> coefficients]
\* a deflate_polynomial without the two tests
deflate_polynomial_unchecked(coefficients, root, tolerance) ==
    [exc |-> "none", quotient |-> synthetic_division(coefficients, root).quotient,
     coefficients |-> synthetic_division(coefficients, root).coefficients]
\* deflate_polynomial: ValueError when root is not a root within tolerance,
\* or when the remainder of the division exceeds it; else the quotient
deflate_polynomial(coefficients, root, tolerance) ==
    IF Gt(Abs(horners_rule(coefficients, root)), tolerance)
    THEN [exc |-> "ValueError", quotient |-> <<>>, coefficients |-> coefficients]
    ELSE LET division == synthetic_division(coefficients, root)
         IN  IF Gt(Abs(division.remainder), tolerance)
             THEN [exc |-> "ValueError", quotient |-> <<>>,
                   coefficients |-> division.coefficients]
             ELSE [exc |-> "none", quotient |-> division.quotient,
                   coefficients |-> division.coefficients]

\* the coefficient lists the callers pass: every list of at most MaxCoeffs
\* integer coefficients, and (x - 1)(x - 2)(x - 3)
MaxCoeffs == 3
Coefficients == {0 - One, 0, One, Two}
PolyThreeRoots == <<One, 0 - 6 * One, 11 * One, 0 - 6 * One>>
CoefficientLists ==
    UNION {[1..n -> Coefficients] : n \in 0..MaxCoeffs} \cup {PolyThreeRoots}
\* the tolerance of deflate_polynomial: its default 1e-10, and a coarse one
DeflationTolerances == {Tiny, One}
\* max_roots: None (the degree), or a number
MaxRootsArguments == {None, 0, 1, 2}
\* what a call of the caller's root_finder does: it returns a float or raises
RootFinderExceptions == {"ValueError", "RuntimeError", "ZeroDivisionError"}
RootFinderOutcomes ==
    [raises : {"none"}, value : Points \cup {3 * One}]
    \cup [raises : RootFinderExceptions, value : {None}]

\* a call of one of the functions, about to run
PolyCall(op, coefficients, x, tolerance, max_roots) ==
    [op |-> op, pc |-> "called", exc |-> "none",
     coefficients |-> coefficients, x |-> x, tolerance |-> tolerance,
     max_roots |-> max_roots, ret |-> <<>>,
     roots |-> <<>>, current_coeffs |-> <<>>, passes |-> 0]
PolyCalls ==
    {PolyCall(op, c, x, Tiny, None) :
        op \in {"horners_rule", "horners_rule_with_derivative", "synthetic_division"},
        c \in CoefficientLists, x \in Points \cup {3 * One}}
    \cup {PolyCall("polynomial_derivative_coefficients", c, 0, Tiny, None) :
             c \in CoefficientLists}
    \cup {PolyCall("deflate_polynomial", c, x, t, None) :
             c \in CoefficientLists, x \in Points \cup {3 * One}, t \in DeflationTolerances}
    \cup {PolyCall("find_all_polynomial_roots_by_deflation", c, 0, Tiny, m) :
             c \in CoefficientLists, m \in MaxRootsArguments}

InitPoly ==
    /\ poly \in PolyCalls
    /\ search = NoCall
    /\ cfg = <<>>
    /\ obj = <<>>
    /\ returned = <<>>
    /\ observed = <<>>

Called(op) == poly.op = op /\ poly.pc = "called"
PolyReturns(p, ret) ==
    /\ poly' = [p EXCEPT !.pc = "returned", !.ret = ret]
    /\ UNCHANGED <<cfg, obj, returned, observed, search>>
PolyRaises(p, exc) ==
    /\ poly' = [p EXCEPT !.pc = "raised", !.exc = exc]
    /\ UNCHANGED <<cfg, obj, returned, observed, search>>

HornersRule ==
    /\ Called("horners_rule")
    /\ PolyReturns(poly, horners_rule(poly.coefficients, poly.x))
HornersRuleWithDerivative ==
    /\ Called("horners_rule_with_derivative")
    /\ PolyReturns(poly, horners_rule_with_derivative(poly.coefficients, poly.x))
PolynomialDerivativeCoefficients ==
    /\ Called("polynomial_derivative_coefficients")
    /\ PolyReturns(poly, polynomial_derivative_coefficients(poly.coefficients))
SyntheticDivision ==
    /\ Called("synthetic_division")
    /\ LET division == synthetic_division(poly.coefficients, poly.x)
       IN  PolyReturns([poly EXCEPT !.coefficients = division.coefficients],
                       <<division.quotient, division.remainder>>)
DeflatePolynomial ==
    /\ Called("deflate_polynomial")
    /\ LET deflated == deflate_polynomial(poly.coefficients, poly.x, poly.tolerance)
       IN  IF deflated.exc # "none"
           THEN PolyRaises([poly EXCEPT !.coefficients = deflated.coefficients],
                           deflated.exc)
           ELSE PolyReturns([poly EXCEPT !.coefficients = deflated.coefficients],
                            deflated.quotient)

\* find_all_polynomial_roots_by_deflation up to its loop: max_roots defaults
\* to the degree, roots = [], current_coeffs = coefficients.copy()
FindAllStart ==
    /\ Called("find_all_polynomial_roots_by_deflation")
    /\ poly' = [poly EXCEPT
           !.pc = "loop",
           !.max_roots = IF @ = None THEN Len(poly.coefficients) - 1 ELSE @,
           !.roots = <<>>, !.current_coeffs = poly.coefficients, !.passes = 0]
    /\ UNCHANGED <<cfg, obj, returned, observed, search>>
\* the loop has passes left and a polynomial of degree at least one
FindAllInLoop ==
    /\ poly.op = "find_all_polynomial_roots_by_deflation"
    /\ poly.pc = "loop"
    /\ poly.passes < poly.max_roots
    /\ Len(poly.current_coeffs) > 1
\* the exceptions the try statement of the loop catches
Caught == {"ValueError", "RuntimeError"}
\* one pass of the loop: the root finder is called, its root is appended and
\* the polynomial deflated; a caught exception breaks to the return
FindAllPass(outcome) ==
    IF outcome.raises \in Caught
    THEN PolyReturns(poly, poly.roots)
    ELSE IF outcome.raises # "none"
    THEN PolyRaises(poly, outcome.raises)
    ELSE LET roots == Append(poly.roots, outcome.value)
             deflated == deflate_polynomial(poly.current_coeffs, outcome.value,
                                            poly.tolerance)
         IN  IF deflated.exc \in Caught
             THEN PolyReturns([poly EXCEPT !.roots = roots,
                                           !.current_coeffs = deflated.coefficients],
                              roots)
             ELSE /\ poly' = [poly EXCEPT !.roots = roots,
                                          !.current_coeffs = deflated.quotient,
                                          !.passes = @ + 1]
                  /\ UNCHANGED <<cfg, obj, returned, observed, search>>
FindAllIterate ==
    /\ FindAllInLoop
    /\ \E outcome \in RootFinderOutcomes : FindAllPass(outcome)
\* the loop ends (range exhausted, or the break at degree zero): return roots
FindAllReturn ==
    /\ poly.op = "find_all_polynomial_roots_by_deflation"
    /\ poly.pc = "loop"
    /\ ~FindAllInLoop
    /\ PolyReturns(poly, poly.roots)

NextPoly ==
    \/ HornersRule
    \/ HornersRuleWithDerivative
    \/ PolynomialDerivativeCoefficients
    \/ SyntheticDivision
    \/ DeflatePolynomial
    \/ FindAllStart
    \/ FindAllIterate
    \/ FindAllReturn

SpecPoly == InitPoly /\ [][NextPoly]_vars

\* ------------------------------------------------------------------------
\* IncrementalSearch
\* ------------------------------------------------------------------------
\* 1e-15, below which find_sign_changes takes a value for zero: the smallest
\* positive value of the grid
ZeroThreshold == 1
\* the default number of subdivisions
DefaultSubdivisions == 1000

\* the functions searched: polynomials with integer zeros, and one without
PolyXm1 == <<One, 0 - One>>
PolyX2m1 == <<One, 0, 0 - One>>
PolyX3mX == <<One, 0, 0 - One, 0>>
SearchFunctions ==
    {PolyX, PolyXm1, PolyX2m1, PolyX2m4, PolyX3mX, PolyX2pXp1, PolyThreeRoots}
\* the arguments increment and num_subdivisions (None: not given)
Increments == {None, One \div 2, One, 0 - One}
Subdivisions == {None, 2, 4}
\* what a call of the caller's root_finder(x1, x2) does: it returns a float
\* or raises an exception
RefinerOutcomes ==
    [raises : {"none"}, value : Points]
    \cup [raises : {"ValueError", "ZeroDivisionError"}, value : {None}]

\* __init__: the interval sorted, the increment from the arguments
IncrementalSearch_init(fn, interval, increment, num_subdivisions) ==
    LET a == Min(interval[1], interval[2])
        b == IF a = interval[1] THEN interval[2] ELSE interval[1]
    IN  [pc |-> "idle", function |-> fn, a |-> a, b |-> b,
         increment |->
             IF increment # None THEN Abs(increment)
             ELSE IF num_subdivisions # None
             THEN Div(Sub(b, a), num_subdivisions * One)
             ELSE Div(Sub(b, a), DefaultSubdivisions * One),
         warned |-> (increment = None /\ num_subdivisions = None),
         method |-> "none", root_finder |-> "None",
         x_current |-> 0, f_current |-> 0, step_count |-> 0,
         sign_change_intervals |-> <<>>, potential_roots |-> <<>>,
         position |-> 0, outcomes |-> <<>>, exc |-> "none", ret |-> <<>>]

\* an IncrementalSearch about to be constructed with the arguments given
NewSearch(fn, interval, increment, num_subdivisions) ==
    [pc |-> "new", function |-> fn, interval |-> interval,
     increment |-> increment, num_subdivisions |-> num_subdivisions]
Searches ==
    {NewSearch(f, <<p, q>>, i, None) :
        f \in SearchFunctions, p \in Points, q \in Points, i \in Increments \ {None}}
    \cup {NewSearch(f, <<p, q>>, None, n) :
        f \in SearchFunctions, p \in Points, q \in Points, n \in Subdivisions}

InitSearch ==
    /\ search \in Searches
    /\ poly = NoCall
    /\ cfg = <<>>
    /\ obj = <<>>
    /\ returned = <<>>
    /\ observed = <<>>

\* find_sign_changes up to its loop
FindSignChangesStart(s) ==
    [s EXCEPT !.pc = "scanning", !.sign_change_intervals = <<>>,
              !.x_current = s.a, !.f_current = function(s.function, s.a),
              !.step_count = 0]
\* a pass of the loop that keeps the function value of the first step
FindSignChangesPass_stale(s) ==
    LET x_next == Min(Add(s.x_current, s.increment), s.b)
        f_next == function(s.function, x_next)
    IN  [s EXCEPT
            !.sign_change_intervals =
                IF Lt(Mul(s.f_current, f_next), 0)
                THEN Append(@, <<s.x_current, x_next>>)
                ELSE IF Lt(Abs(f_next), ZeroThreshold)
                THEN Append(@, <<x_next, x_next>>)
                ELSE @,
            !.x_current = x_next,
            !.step_count = @ + 1]
\* one pass of the while loop of find_sign_changes
FindSignChangesPass(s) ==
    LET x_next == Min(Add(s.x_current, s.increment), s.b)
        f_next == function(s.function, x_next)
    IN  [s EXCEPT
            !.sign_change_intervals =
                IF Lt(Mul(s.f_current, f_next), 0)
                THEN Append(@, <<s.x_current, x_next>>)
                ELSE IF Lt(Abs(f_next), ZeroThreshold)
                THEN Append(@, <<x_next, x_next>>)
                ELSE @,
            !.x_current = x_next,
            !.f_current = f_next,
            !.step_count = @ + 1]

\* a pass of the refinement that takes the left end where the midpoint is
\* meant
FindPotentialRootsPass_left(s, outcome) ==
    LET x1 == s.sign_change_intervals[s.position][1]
        x2 == s.sign_change_intervals[s.position][2]
        estimate ==
            IF x1 = x2 THEN x1
            ELSE IF s.root_finder # "None" /\ outcome.raises = "none"
            THEN outcome.value
            ELSE x1
    IN  [s EXCEPT !.potential_roots = Append(@, estimate),
                  !.outcomes = Append(@, IF x1 = x2 \/ s.root_finder = "None"
                                         THEN [raises |-> "not called", value |-> None]
                                         ELSE outcome),
                  !.position = @ + 1]
\* one pass of the for loop of find_potential_roots over the entry at
\* position: the point of an exact hit, the root finder's value, or the
\* midpoint when there is no root finder or it raised an Exception
FindPotentialRootsPass(s, outcome) ==
    LET x1 == s.sign_change_intervals[s.position][1]
        x2 == s.sign_change_intervals[s.position][2]
        estimate ==
            IF x1 = x2 THEN x1
            ELSE IF s.root_finder # "None" /\ outcome.raises = "none"
            THEN outcome.value
            ELSE Div(Add(x1, x2), Two)
    IN  [s EXCEPT !.potential_roots = Append(@, estimate),
                  !.outcomes = Append(@, IF x1 = x2 \/ s.root_finder = "None"
                                         THEN [raises |-> "not called", value |-> None]
                                         ELSE outcome),
                  !.position = @ + 1]

Searching(s2) ==
    /\ search' = s2
    /\ UNCHANGED <<cfg, obj, returned, observed, poly>>

SearchConstruct ==
    /\ search.pc = "new"
    /\ Searching(IncrementalSearch_init(search.function, search.interval,
                                        search.increment, search.num_subdivisions))
\* the caller calls find_sign_changes()
CallFindSignChanges ==
    /\ search.pc = "idle"
    /\ Searching([FindSignChangesStart(search) EXCEPT !.method = "find_sign_changes"])
\* the caller calls find_potential_roots(), with or without a root finder;
\* it begins with find_sign_changes()
CallFindPotentialRoots ==
    /\ search.pc = "idle"
    /\ \E root_finder \in {"None", "supplied"} :
           Searching([FindSignChangesStart(search) EXCEPT
                         !.method = "find_potential_roots",
                         !.root_finder = root_finder])
\* the passes of the while loop a run of the model follows: more than any
\* scan of an interval of the inputs needs at the smallest positive increment
MaxSteps == 5 * Scale
ScanStep ==
    /\ search.pc = "scanning"
    /\ Lt(search.x_current, search.b)
    /\ search.step_count < MaxSteps
    /\ Searching(FindSignChangesPass(search))
\* the loop of find_sign_changes ends: it returns its list, to the caller or
\* to find_potential_roots
ScanEnd ==
    /\ search.pc = "scanning"
    /\ ~Lt(search.x_current, search.b)
    /\ IF search.method = "find_sign_changes"
       THEN Searching([search EXCEPT !.pc = "returned",
                                     !.ret = search.sign_change_intervals])
       ELSE Searching([search EXCEPT !.pc = "refining", !.potential_roots = <<>>,
                                     !.position = 1])
RefineStep ==
    /\ search.pc = "refining"
    /\ search.position <= Len(search.sign_change_intervals)
    /\ \E outcome \in RefinerOutcomes :
           Searching(FindPotentialRootsPass(search, outcome))
RefineEnd ==
    /\ search.pc = "refining"
    /\ search.position > Len(search.sign_change_intervals)
    /\ Searching([search EXCEPT !.pc = "returned", !.ret = search.potential_roots])

NextSearch ==
    \/ SearchConstruct
    \/ CallFindSignChanges
    \/ CallFindPotentialRoots
    \/ ScanStep
    \/ ScanEnd
    \/ RefineStep
    \/ RefineEnd

SpecSearch == InitSearch /\ [][NextSearch]_vars

\* the searches above, and those the constructor accepts with an increment of
\* zero or a negative number of subdivisions
ScanSearches ==
    Searches
    \cup {NewSearch(f, <<p, q>>, 0, None) :
             f \in SearchFunctions, p \in Points, q \in Points}
    \cup {NewSearch(f, <<p, q>>, None, 0 - 2) :
             f \in SearchFunctions, p \in Points, q \in Points}
InitScan ==
    /\ search \in ScanSearches
    /\ poly = NoCall
    /\ cfg = <<>>
    /\ obj = <<>>
    /\ returned = <<>>
    /\ observed = <<>>
SpecScan == InitScan /\ [][NextSearch]_vars

\* ------------------------------------------------------------------------
\* Two solver instances whose solve() calls interleave
\* ------------------------------------------------------------------------
Pair == {1, 2}
\* one solver of each kind and each iteration cap, on x^3 - x - 1 (the
\* Fixed-Point solvers on g(x) = x / 2 + 1)
PairConfigs ==
    {c \in Configs :
        /\ c.function = (IF c.kind = "FixedPoint" THEN PolyHalf ELSE PolyCubic)
        /\ c.tolerance = Tiny + 1
        /\ c.p0 = One
        /\ c.p1 = (IF c.kind \in {"NewtonRaphson", "FixedPoint"} THEN 0 ELSE Two)
        /\ c.p2 = 0
        /\ c.kind = "NewtonRaphson" => c.derivative # "None"}
InitPair ==
    /\ cfg \in [Pair -> PairConfigs]
    /\ obj = [i \in Pair |-> NewObject]
    /\ returned = [i \in Pair |-> <<>>]
    /\ observed = [i \in Pair |-> <<>>]
    /\ poly = NoCall
    /\ search = NoCall
NextPair ==
    \E i \in Pair :
        \/ BisectionConstruct(i) \/ BisectionStart(i)
        \/ BisectionIterate(i) \/ BisectionExhausted(i)
        \/ FalsePositionConstruct(i) \/ FalsePositionStart(i)
        \/ FalsePositionIterate(i) \/ FalsePositionExhausted(i)
        \/ NewtonRaphsonConstruct(i) \/ NewtonRaphsonStart(i)
        \/ NewtonRaphsonIterate(i) \/ NewtonRaphsonExhausted(i)
        \/ SecantConstruct(i) \/ SecantStart(i)
        \/ SecantIterate(i) \/ SecantExhausted(i)
        \/ FixedPointConstruct(i) \/ FixedPointStart(i)
        \/ FixedPointIterate(i) \/ FixedPointExhausted(i)
        \/ MullerConstruct(i) \/ MullerStart(i)
        \/ MullerIterate(i) \/ MullerExhausted(i)
SpecPair == InitPair /\ [][NextPair]_vars

\* ------------------------------------------------------------------------
\* Properties
\* ------------------------------------------------------------------------
\* the results instance i has returned so far
Results(i) == 1..Len(returned[i])
\* solve() of instance i is between its reset and its return
Solving(i) == obj[i].pc \in {"loop", "after_loop"}
\* the history h carries the indices 0, 1, 2, ...
Indexed(h) == \A k \in 1..Len(h) : h[k].iteration = k - 1
IsPrefix(h, g) == Len(h) <= Len(g) /\ SubSeq(g, 1, Len(h)) = h
Last(h) == h[Len(h)]

\* C1: two consecutive solve() calls on one instance return results that
\* agree in root, iterations, convergence_achieved, final_error,
\* function_evaluations and in the contents of iteration_history as the
\* caller sees them at each return; only execution_time may differ.
C1_SolveIdempotent ==
    \A i \in Instances : \A k \in Results(i) :
        k > 1 =>
            /\ returned[i][k].root = returned[i][k - 1].root
            /\ returned[i][k].iterations = returned[i][k - 1].iterations
            /\ returned[i][k].convergence_achieved = returned[i][k - 1].convergence_achieved
            /\ returned[i][k].final_error = returned[i][k - 1].final_error
            /\ returned[i][k].function_evaluations = returned[i][k - 1].function_evaluations
            /\ observed[i][k].iteration_history = observed[i][k - 1].iteration_history
\* two calls have returned, with a history of several entries and two
\* different measured times
C1_Witness ==
    \E i \in Instances :
        /\ Len(returned[i]) >= 2
        /\ Len(observed[i][2].iteration_history) >= 3
        /\ returned[i][1].execution_time # returned[i][2].execution_time

\* C2: a SolverResult is immutable once returned: after any later operation
\* on its solver (a second solve(), reset_counters(), add_iteration_result())
\* the contents of its iteration_history are what they were at the return.
C2_ResultImmutable ==
    \A i \in Instances : \A k \in Results(i) :
        HistoryOf(returned[i][k]) = observed[i][k].iteration_history

\* C3: during a solve() the history carries the indices 0, 1, 2, ... in
\* this order, so does every history handed to the caller, and between the
\* reset and the return a step of solve() only appends to it.
C3_HistoryOrdered ==
    /\ [](\A i \in Instances :
            /\ Solving(i) => Indexed(obj[i].iteration_history)
            /\ \A k \in Results(i) : Indexed(observed[i][k].iteration_history))
    /\ [][\A i \in Instances :
            Solving(i) => IsPrefix(obj[i].iteration_history, obj'[i].iteration_history)]_vars
\* a second solve() is in its loop with at least three entries recorded
C3_Witness ==
    \E i \in Instances :
        /\ obj[i].pc = "loop"
        /\ obj[i].calls = 2
        /\ Len(obj[i].iteration_history) >= 3

\* C4: solve() of a constructed solver never raises because of a numerical
\* degeneracy of its update rule (a zero denominator, an overflow).
NumericalErrors == {"ZeroDivisionError", "OverflowError"}
C4_NeverRaises ==
    \A i \in Instances : obj[i].pc = "raised" => obj[i].exc \notin NumericalErrors

\* C5: for Bisection and False Position the working bracket satisfies
\* f(a) * f(b) <= 0 at the start of solve() and after every endpoint
\* replacement.
C5_BracketInvariant ==
    \A i \in Instances :
        (cfg[i].kind \in {"Bisection", "FalsePosition"} /\ obj[i].pc = "loop")
            => ~Gt(Mul(obj[i].loc.fa, obj[i].loc.fb), 0)

\* C6: when the loop has run to the cap N without the convergence test
\* passing, solve() returns (raises nothing) a result with
\* convergence_achieved false, iterations = N and the current estimate as
\* root.
Exhausting(i) == obj[i].pc = "loop" /\ obj[i].loc.iteration > cfg[i].max_iterations
\* the estimate a solver holds when its loop ends
CurrentEstimate(c, l) ==
    CASE c.kind = "Bisection" -> Div(Add(l.a, l.b), Two)
      [] c.kind = "FalsePosition" -> Interpolate(l)
      [] c.kind = "NewtonRaphson" -> l.x
      [] c.kind = "Secant" -> l.x_curr
      [] c.kind = "FixedPoint" -> l.x
      [] c.kind = "Muller" -> RealIfReal(l.x[3])
C6_ExhaustionReturns ==
    [][\A i \in Instances :
          (Exhausting(i) /\ obj'[i] # obj[i]) =>
              /\ obj'[i].pc = "idle"
              /\ Len(returned'[i]) = Len(returned[i]) + 1
              /\ ~Last(returned'[i]).convergence_achieved
              /\ Last(returned'[i]).iterations = cfg[i].max_iterations
              /\ Last(returned'[i]).root = CurrentEstimate(cfg[i], obj[i].loc)]_vars
\* a call with the largest cap has returned unconverged after a full loop
C6_Witness ==
    \E i \in Instances :
        /\ cfg[i].max_iterations = MaxIter
        /\ Len(returned[i]) > 0
        /\ ~returned[i][1].convergence_achieved
        /\ returned[i][1].iterations = MaxIter
        /\ Len(observed[i][1].iteration_history) = MaxIter + 1

\* C7: a solve() executes its loop body at most N = max_iterations times,
\* and its history holds at most N + 1 entries (at most max(3, N + 1) for
\* Muller).
HistoryCap(c) ==
    IF c.kind = "Muller" /\ c.max_iterations + 1 < 3 THEN 3 ELSE c.max_iterations + 1
\* the index of the first pass through the loop
FirstPass(c) ==
    CASE c.kind = "Secant" -> 2
      [] c.kind = "Muller" -> 3
      [] OTHER -> 1
C7_LoopBounded ==
    \A i \in Instances :
        /\ Solving(i) => Len(obj[i].iteration_history) <= HistoryCap(cfg[i])
        /\ obj[i].pc = "loop" =>
               obj[i].loc.iteration - FirstPass(cfg[i]) <= cfg[i].max_iterations
        /\ \A k \in Results(i) :
               Len(observed[i][k].iteration_history) <= HistoryCap(cfg[i])
\* a loop with the largest cap has made all its passes and filled the history
C7_Witness ==
    \E i \in Instances :
        /\ obj[i].pc = "loop"
        /\ cfg[i].max_iterations = MaxIter
        /\ obj[i].loc.iteration = MaxIter + 1
        /\ Len(obj[i].iteration_history) = HistoryCap(cfg[i])

\* C8 as stated: whenever solve() returns convergence_achieved = true on a
\* function with a known simple root r inside the initial data, the root
\* returned satisfies |root - r| < 10 * tolerance.
\* The simple real roots of the catalogue's functions (for FixedPoint: the
\* simple fixed points of g)
SimpleRoots(c) ==
    IF c.kind = "FixedPoint"
    THEN CASE c.function = PolyHalf -> {Two}
           [] c.function = PolySlow -> {0}
           [] OTHER -> {}
    ELSE CASE c.function = PolyX2m4 -> {0 - Two, Two}
           [] c.function = PolyX -> {0}
           [] c.function = PolySlow -> {0}
           [] c.function = PolyHalf -> {0 - Two}
           [] OTHER -> {}
\* the roots that lie inside the initial data: inside the bracket, or
\* between the smallest and the largest of the guesses
Lowest(c) ==
    CASE c.kind \in {"NewtonRaphson", "FixedPoint"} -> c.p0
      [] c.kind = "Muller" -> Min(c.p0, Min(c.p1, c.p2))
      [] OTHER -> Min(c.p0, c.p1)
Highest(c) ==
    CASE c.kind \in {"NewtonRaphson", "FixedPoint"} -> c.p0
      [] c.kind = "Muller" -> Neg(Min(Neg(c.p0), Min(Neg(c.p1), Neg(c.p2))))
      [] OTHER -> Neg(Min(Neg(c.p0), Neg(c.p1)))
KnownRoots(c) ==
    {r \in SimpleRoots(c) :
        c.kind \in {"Bisection", "FalsePosition"} => (Lowest(c) <= r /\ r <= Highest(c))}
\* |root - r| for a returned root
Distance(c, root, r) ==
    IF c.kind = "Muller" THEN hypot(root.real - r, root.imag) ELSE Magnitude(root - r)
FiniteRoot(c, root) ==
    IF c.kind = "Muller" THEN isfinite(root.real) /\ isfinite(root.imag) ELSE isfinite(root)
C8_RootWithinTenTolerances ==
    \A i \in Instances : \A k \in Results(i) :
        (returned[i][k].convergence_achieved /\ KnownRoots(cfg[i]) # {}) =>
            /\ FiniteRoot(cfg[i], returned[i][k].root)
            /\ \E r \in KnownRoots(cfg[i]) :
                   Distance(cfg[i], returned[i][k].root, r) < 10 * cfg[i].tolerance

\* C8 amended: whenever solve() returns convergence_achieved = true, the
\* last history entry is the returned iterate and passed the solver's own
\* test: its residual |f_value| is below the tolerance, or its step error
\* is below the tolerance (below tolerance * (1 + |root|) for Newton-Raphson
\* and Secant).  This bounds the residual or the last step, not |root - r|.
PassedTest(c, e) ==
    \/ Lt(Abs(e.f_value), c.tolerance)
    \/ IF c.kind \in {"NewtonRaphson", "Secant"}
       THEN Lt(e.error, Mul(c.tolerance, Add(One, Abs(e.x_value))))
       ELSE Lt(e.error, c.tolerance)
C8_ConvergedPassedTest ==
    \A i \in Instances : \A k \in Results(i) :
        returned[i][k].convergence_achieved =>
            /\ Last(observed[i][k].iteration_history).iteration = returned[i][k].iterations
            /\ Last(observed[i][k].iteration_history).x_value =
                   (IF cfg[i].kind = "Muller" THEN returned[i][k].root.real
                    ELSE returned[i][k].root)
            /\ Last(observed[i][k].iteration_history).error = returned[i][k].final_error
            /\ PassedTest(cfg[i], Last(observed[i][k].iteration_history))
\* Newton-Raphson or Secant has converged by the step test alone
C8_Witness ==
    \E i \in Instances :
        /\ cfg[i].kind \in {"NewtonRaphson", "Secant"}
        /\ Len(returned[i]) > 0
        /\ returned[i][1].convergence_achieved
        /\ ~Lt(Abs(Last(observed[i][1].iteration_history).f_value), cfg[i].tolerance)

\* C9: constructing a NewtonRaphsonSolver without a derivative succeeds.
C9_ConstructsWithoutDerivative ==
    \A i \in Instances :
        (cfg[i].kind = "NewtonRaphson" /\ cfg[i].derivative = "None")
            => obj[i].pc # "failed"

\* C10: the function_evaluations of a returned result is the number of
\* times the caller's function (g for FixedPoint) was invoked between the
\* start of that solve() and its return.
C10_CountsInvocations ==
    \A i \in Instances : \A k \in Results(i) :
        returned[i][k].function_evaluations = observed[i][k].invocations

\* C11: the constructors of BisectionSolver and FalsePositionSolver raise
\* ValueError exactly when f(a) * f(b) > 0, and otherwise store the two
\* endpoints given with self.a < self.b, swapped when they were given in
\* reverse order.
C11_BracketConstructor ==
    \A i \in Instances :
        (cfg[i].kind \in {"Bisection", "FalsePosition"} /\ obj[i].pc # "new") =>
            /\ (obj[i].pc = "failed" /\ obj[i].exc = "ValueError")
                   <=> Gt(Mul(function(cfg[i].function, cfg[i].p0),
                              function(cfg[i].function, cfg[i].p1)), 0)
            /\ obj[i].pc # "failed" =>
                   /\ Lt(obj[i].a, obj[i].b)
                   /\ {obj[i].a, obj[i].b} = {cfg[i].p0, cfg[i].p1}

\* the call of the PolynomialUtils function op has returned
Returned(op) == poly.op = op /\ poly.pc = "returned"

\* C12: horners_rule_with_derivative(coeffs, x) returns the pair
\* (p(x), p'(x)): its first component is the value of the polynomial at x,
\* its second the value of the derivative, which is
\* horners_rule(polynomial_derivative_coefficients(coeffs), x).
C12_HornerWithDerivative ==
    Returned("horners_rule_with_derivative") =>
        /\ poly.ret[1] = horners_rule(poly.coefficients, poly.x)
        /\ poly.ret[2] =
               horners_rule(polynomial_derivative_coefficients(poly.coefficients), poly.x)

\* x ** k
RECURSIVE Power(_, _)
Power(x, k) == IF k = 0 THEN One ELSE Mul(Power(x, k - 1), x)
\* the sum of the first k terms coeffs[i] * x^(n-i) of the polynomial
RECURSIVE DirectSum(_, _, _)
DirectSum(coeffs, x, k) ==
    IF k = 0 THEN 0
    ELSE Add(DirectSum(coeffs, x, k - 1), Mul(coeffs[k], Power(x, Len(coeffs) - k)))
\* the value at x of the polynomial with the coefficients coeffs
Value(coeffs, x) == DirectSum(coeffs, x, Len(coeffs))

\* C13: horners_rule(coeffs, x) equals the direct sum of the terms
\* coeffs[i] * x^(n-i), coefficients highest degree first, for every
\* coefficient list and every x, and is 0 for the empty list.
C13_HornerEqualsDirectSum ==
    Returned("horners_rule") =>
        /\ poly.ret = Value(poly.coefficients, poly.x)
        /\ poly.coefficients = <<>> => poly.ret = 0
\* a polynomial of degree two with a nonzero linear term has been evaluated
\* at a point other than 0 and 1
C13_Witness ==
    /\ Returned("horners_rule")
    /\ Len(poly.coefficients) >= 3
    /\ poly.coefficients[1] # 0
    /\ poly.coefficients[Len(poly.coefficients) - 1] # 0
    /\ poly.x \notin {0, One}
    /\ poly.ret # 0

\* the points at which two polynomials are compared
SamplePoints == Points \cup {3 * One}

\* C14: synthetic_division(coeffs, root) returns (q, rem) with
\* len(q) = len(coeffs) - 1 for a list of at least one coefficient, such
\* that p(x) = (x - root) * q(x) + rem at every x; a single coefficient c
\* gives ([], c), and [1, -6, 11, -6] with root 1 gives ([1, -5, 6], 0).
C14_SyntheticDivision ==
    Returned("synthetic_division") =>
        /\ poly.coefficients # <<>> => Len(poly.ret[1]) = Len(poly.coefficients) - 1
        /\ \A x \in SamplePoints :
               Value(poly.coefficients, x) =
                   Add(Mul(Sub(x, poly.x), Value(poly.ret[1], x)), poly.ret[2])
        /\ Len(poly.coefficients) = 1 => poly.ret = <<<<>>, poly.coefficients[1]>>
        /\ (poly.coefficients = PolyThreeRoots /\ poly.x = One)
               => poly.ret = <<<<One, 0 - 5 * One, 6 * One>>, 0>>
\* a polynomial of degree at least two has been divided by (x - root), with
\* a nonzero root, leaving a remainder
C14_Witness ==
    /\ Returned("synthetic_division")
    /\ Len(poly.coefficients) >= 3
    /\ poly.coefficients[1] # 0
    /\ poly.x # 0
    /\ poly.ret[2] # 0
    /\ \E k \in 2..Len(poly.ret[1]) : poly.ret[1][k] # poly.coefficients[k]

\* C15: for a polynomial p and an exact root r of p, deflate_polynomial
\* returns d with p(x) = (x - r) * d(x) at every x, and so
\* horners_rule(d, s) = 0 at every other root s of p.
C15_DeflationKeepsOtherRoots ==
    (/\ poly.op = "deflate_polynomial"
     /\ poly.pc # "called"
     /\ Value(poly.coefficients, poly.x) = 0) =>
        /\ poly.pc = "returned"
        /\ \A x \in SamplePoints :
               Value(poly.coefficients, x) = Mul(Sub(x, poly.x), Value(poly.ret, x))
        /\ \A s \in SamplePoints :
               (s # poly.x /\ Value(poly.coefficients, s) = 0)
                   => horners_rule(poly.ret, s) = 0
\* a polynomial of degree at least two with two different roots has been
\* deflated by one of them
C15_Witness ==
    /\ Returned("deflate_polynomial")
    /\ Len(poly.coefficients) >= 3
    /\ poly.coefficients[1] # 0
    /\ Value(poly.coefficients, poly.x) = 0
    /\ poly.x # 0
    /\ \E s \in SamplePoints : s # poly.x /\ Value(poly.coefficients, s) = 0

\* C16: deflate_polynomial(coeffs, root, tol) raises ValueError when
\* |p(root)| > tol, which is also the remainder of the division by
\* (x - root); in every other case it returns the quotient, of length
\* len(coeffs) - 1 for a list of at least one coefficient; in both outcomes
\* the caller's coefficient list is as it was before the call.
C16_DeflationChecks ==
    [][(poly.op = "deflate_polynomial" /\ poly.pc = "called") =>
          /\ poly'.coefficients = poly.coefficients
          /\ IF Gt(Abs(Value(poly.coefficients, poly.x)), poly.tolerance)
             THEN poly'.pc = "raised" /\ poly'.exc = "ValueError"
             ELSE /\ poly'.pc = "returned"
                  /\ poly.coefficients # <<>>
                         => Len(poly'.ret) = Len(poly.coefficients) - 1
                  /\ \A x \in SamplePoints :
                         Value(poly.coefficients, x) =
                             Add(Mul(Sub(x, poly.x), Value(poly'.ret, x)),
                                 Value(poly.coefficients, poly.x))]_vars
\* a value that is no root within the coarse tolerance has been rejected
C16_Witness ==
    /\ poly.op = "deflate_polynomial"
    /\ poly.pc = "raised"
    /\ poly.exc = "ValueError"
    /\ poly.tolerance = One
    /\ Len(poly.coefficients) >= 3
    /\ poly.coefficients[1] # 0

\* C17: find_all_polynomial_roots_by_deflation stops early on any failure:
\* no exception of the root finder or of the deflation leaves the function,
\* which returns the roots collected so far; it never returns more than
\* max_roots values (by default the degree of the input).
C17_StopsOnAnyFailure ==
    poly.op = "find_all_polynomial_roots_by_deflation" =>
        /\ poly.pc # "raised"
        /\ poly.pc = "returned" =>
               /\ poly.ret = poly.roots
               /\ Len(poly.ret) <= (IF poly.max_roots < 0 THEN 0 ELSE poly.max_roots)

\* the call of the IncrementalSearch method has returned
SearchReturned(method) == search.pc = "returned" /\ search.method = method
\* find_sign_changes is running or has run on the object
Scanned == search.pc \in {"scanning", "refining", "returned"}
\* the entries of the list are in ascending order of x
Ascending(entries) ==
    \A k \in 1..(Len(entries) - 1) :
        /\ Lt(entries[k][1], entries[k + 1][1])
        /\ ~Lt(entries[k + 1][1], entries[k][2])
\* what the scan step from x adds to the list of entries
StepEntry(fn, x, x2) ==
    IF Lt(Mul(function(fn, x), function(fn, x2)), 0) THEN <<<<x, x2>>>>
    ELSE IF Lt(Abs(function(fn, x2)), ZeroThreshold) THEN <<<<x2, x2>>>>
    ELSE <<>>

\* C18: find_sign_changes scans from a in steps [x, x2] with
\* x2 = min(x + increment, b) until b is reached, and each step adds to the
\* list the pair (x, x2) when f(x) * f(x2) < 0, the pair (x2, x2) when there
\* is no sign change and |f(x2)| < 1e-15, and nothing otherwise; the list is
\* returned, in ascending order of x.
C18_OneEntryPerStep ==
    /\ [](Scanned => Ascending(search.sign_change_intervals))
    /\ [][(search.pc = "idle" /\ search'.pc = "scanning") =>
             /\ search'.x_current = search.a
             /\ search'.sign_change_intervals = <<>>]_vars
    /\ [][(search.pc = "scanning" /\ search'.pc = "scanning") =>
             /\ Lt(search.x_current, search.b)
             /\ search'.x_current = Min(Add(search.x_current, search.increment), search.b)
             /\ search'.sign_change_intervals =
                    search.sign_change_intervals
                        \o StepEntry(search.function, search.x_current, search'.x_current)]_vars
    /\ [][(search.pc = "scanning" /\ search'.pc # "scanning") =>
             /\ ~Lt(search.x_current, search.b)
             /\ search'.sign_change_intervals = search.sign_change_intervals
             /\ search.method = "find_sign_changes"
                    => search'.ret = search.sign_change_intervals]_vars
\* find_sign_changes has returned a sign change followed by an exact hit
C18_Witness ==
    /\ SearchReturned("find_sign_changes")
    /\ Len(search.ret) >= 2
    /\ \E k \in 1..(Len(search.ret) - 1) :
           /\ search.ret[k][1] # search.ret[k][2]
           /\ search.ret[k + 1][1] = search.ret[k + 1][2]
    /\ search.step_count >= 3

\* the zeros of the function searched in the closed interval [a, b]
Zeros == {z \in SamplePoints :
             /\ ~Lt(z, search.a)
             /\ ~Lt(search.b, z)
             /\ function(search.function, z) = 0}
\* the zeros of the function are simple and more than one increment apart
SimpleZerosApart ==
    /\ search.function \in SearchFunctions
    /\ Gt(search.increment, 0)
    /\ \A z1 \in Zeros : \A z2 \in Zeros :
           z1 # z2 => Gt(Abs(Sub(z1, z2)), search.increment)
\* the entry contains z or lies within one increment of it
Near(entry, z) ==
    /\ ~Lt(z, Sub(entry[1], search.increment))
    /\ ~Lt(Add(entry[2], search.increment), z)

\* C19: for a function whose zeros in [a, b] are simple and more than one
\* increment apart, find_sign_changes and find_potential_roots return
\* exactly one entry per zero, the entry containing its zero or lying within
\* one increment of it, zeros at grid points and at the endpoints a and b
\* included.
C19_OneEntryPerZero ==
    (search.pc = "returned" /\ Lt(search.a, search.b) /\ SimpleZerosApart) =>
        /\ Len(search.ret) = Cardinality(Zeros)
        /\ Len(search.sign_change_intervals) = Cardinality(Zeros)
        /\ \A z \in Zeros :
               \E k \in 1..Len(search.sign_change_intervals) :
                   Near(search.sign_change_intervals[k], z)

\* C20: find_potential_roots returns one estimate per entry of
\* find_sign_changes, in the same order: the point of an exact hit, the
\* value of root_finder(x1, x2) when a root finder is supplied and returns,
\* the midpoint (x1 + x2) / 2 when none is supplied or it raises; no
\* exception of the root finder reaches the caller.
C20_OneEstimatePerEntry ==
    /\ search.pc # "new" => search.exc = "none"
    /\ SearchReturned("find_potential_roots") =>
           /\ Len(search.ret) = Len(search.sign_change_intervals)
           /\ \A k \in 1..Len(search.ret) :
                  LET x1 == search.sign_change_intervals[k][1]
                      x2 == search.sign_change_intervals[k][2]
                  IN  search.ret[k] =
                          IF x1 = x2 THEN x1
                          ELSE IF search.outcomes[k].raises = "none"
                          THEN search.outcomes[k].value
                          ELSE Div(Add(x1, x2), Two)
           /\ \A k \in 1..Len(search.ret) :
                  (search.outcomes[k].raises = "not called")
                      <=> (\/ search.root_finder = "None"
                           \/ search.sign_change_intervals[k][1]
                                  = search.sign_change_intervals[k][2])
\* find_potential_roots has returned three kinds of estimate: an exact hit,
\* the value of a root finder, and the midpoint after the root finder raised
C20_Witness ==
    /\ SearchReturned("find_potential_roots")
    /\ \E k \in 1..Len(search.ret) :
           search.sign_change_intervals[k][1] = search.sign_change_intervals[k][2]
    /\ \E k \in 1..Len(search.ret) :
           /\ search.outcomes[k].raises = "none"
           /\ search.ret[k] # Div(Add(search.sign_change_intervals[k][1],
                                      search.sign_change_intervals[k][2]), Two)
    /\ \E k \in 1..Len(search.ret) :
           search.outcomes[k].raises \in {"ValueError", "ZeroDivisionError"}

\* C22: on every exit path of every solver the iterations of the returned
\* SolverResult is the number of iterations performed: the iteration index
\* of the last entry of the returned iteration_history.
C22_IterationsIsLastIndex ==
    \A i \in Instances : \A k \in Results(i) :
        /\ observed[i][k].iteration_history # <<>>
        /\ returned[i][k].iterations = Last(observed[i][k].iteration_history).iteration

\* C23: when Bisection exhausts its N iterations, the root it reports is the
\* last midpoint the loop computed, the x_value of the last entry of the
\* history, and final_error is the half-width recorded with it.
C23_BisectionReportsLastMidpoint ==
    \A i \in Instances : \A k \in Results(i) :
        (cfg[i].kind = "Bisection" /\ ~returned[i][k].convergence_achieved) =>
            /\ returned[i][k].root = Last(observed[i][k].iteration_history).x_value
            /\ returned[i][k].final_error = Last(observed[i][k].iteration_history).error

\* C24: when a NewtonRaphsonSolver.solve() with a supplied derivative
\* returns, the solver's derivative_evaluations counter is the number of
\* times the derivative was invoked during that call.
C24_CountsDerivativeInvocations ==
    [][\A i \in Instances :
          (/\ cfg[i].kind = "NewtonRaphson"
           /\ cfg[i].derivative # "None"
           /\ Len(returned'[i]) > Len(returned[i])) =>
              obj'[i].derivative_evaluations
                  = Last(observed'[i]).derivative_invocations]_vars

\* 2 ** k
RECURSIVE PowerOfTwo(_)
PowerOfTwo(k) == IF k = 0 THEN 1 ELSE 2 * PowerOfTwo(k - 1)
\* the width w can be halved k times without rounding
Halves(w, k) == w % PowerOfTwo(k) = 0
\* instance i passes from one iteration of the loop to the next
NonTerminal(i) ==
    /\ obj[i].pc = "loop"
    /\ obj'[i].pc = "loop"
    /\ obj'[i].loc.iteration = obj[i].loc.iteration + 1
\* the entries of the history h of a Bisection started on a bracket of width
\* w record the errors w / 2^k
HalvedErrors(h, w) ==
    \A n \in 1..Len(h) : Halves(w, n - 1) => h[n].error * PowerOfTwo(n - 1) = w

\* C25: in Bisection every non-terminal iteration replaces exactly one
\* endpoint by the midpoint c = (a + b) / 2, b when f(a) * f(c) < 0 and a
\* otherwise; so the brackets are nested with a < b, the width halves at
\* every iteration, and the error recorded at iteration k is
\* (b0 - a0) / 2^k for the initial bracket [a0, b0] (wherever the halves are
\* representable, so that no midpoint is rounded).
C25_BisectionHalves ==
    /\ [][\A i \in Instances :
             (cfg[i].kind = "Bisection" /\ NonTerminal(i)) =>
                 LET l == obj[i].loc
                     n == obj'[i].loc
                     mid == Div(Add(l.a, l.b), Two)
                 IN  /\ IF Lt(Mul(function(cfg[i].function, l.a),
                                  function(cfg[i].function, mid)), 0)
                        THEN n.a = l.a /\ n.b = mid
                        ELSE n.a = mid /\ n.b = l.b
                     /\ (Lt(l.a, l.b) /\ Halves(l.b - l.a, 1)) =>
                            /\ ~Lt(n.a, l.a)
                            /\ ~Lt(l.b, n.b)
                            /\ Lt(n.a, n.b)
                            /\ 2 * (n.b - n.a) = l.b - l.a]_vars
    /\ [](\A i \in Instances :
             cfg[i].kind = "Bisection" =>
                 /\ Solving(i) =>
                        HalvedErrors(obj[i].iteration_history, obj[i].b - obj[i].a)
                 /\ \A k \in Results(i) :
                        HalvedErrors(observed[i][k].iteration_history,
                                     obj[i].b - obj[i].a))
\* a Bisection is in its fourth pass with both endpoints replaced
C25_Witness ==
    \E i \in Instances :
        /\ cfg[i].kind = "Bisection"
        /\ obj[i].pc = "loop"
        /\ obj[i].loc.iteration >= 4
        /\ obj[i].loc.a # obj[i].a
        /\ obj[i].loc.b # obj[i].b
        /\ Len(obj[i].iteration_history) >= 4


\* instance i, a Newton-Raphson with a derivative, starts an iteration at a
\* point where |f'(x)| < 1e-15
Stationary(i) ==
    /\ cfg[i].kind = "NewtonRaphson"
    /\ cfg[i].derivative # "None"
    /\ obj[i].pc = "loop"
    /\ obj[i].loc.iteration <= cfg[i].max_iterations
    /\ Lt(Abs(derivative(cfg[i].function, obj[i].loc.x)), Tiny)
\* C26: in Newton-Raphson, when |f'(x)| < 1e-15 at the start of iteration k,
\* solve() returns at once without raising, with convergence_achieved false,
\* root the x of history entry k - 1, iterations = k - 1, no history entry
\* appended and no further evaluation of f.
C26_StationaryPointStops ==
    [][\A i \in Instances :
          (Stationary(i) /\ obj'[i] # obj[i]) =>
              LET k == obj[i].loc.iteration
                  h == obj[i].iteration_history
              IN  /\ Len(returned'[i]) = Len(returned[i]) + 1
                  /\ obj'[i].pc = "idle"
                  /\ ~Last(returned'[i]).convergence_achieved
                  /\ Last(h).iteration = k - 1
                  /\ Last(returned'[i]).root = Last(h).x_value
                  /\ Last(returned'[i]).iterations = k - 1
                  /\ Last(observed'[i]).iteration_history = h
                  /\ Last(returned'[i]).function_evaluations = obj[i].function_evaluations
                  /\ Last(observed'[i]).invocations = obj[i].invocations]_vars
\* a solve() has returned from its second iteration at a stationary point
C26_Witness ==
    \E i \in Instances : \E k \in Results(i) :
        /\ cfg[i].kind = "NewtonRaphson"
        /\ ~returned[i][k].convergence_achieved
        /\ returned[i][k].iterations = 1
        /\ cfg[i].max_iterations > 1
        /\ Len(observed[i][k].iteration_history) = 2
        /\ Lt(Abs(derivative(cfg[i].function, returned[i][k].root)), Tiny)


\* instance i, a Secant, starts an iteration with |f(x1) - f(x0)| < 1e-15
Degenerate(i) ==
    /\ cfg[i].kind = "Secant"
    /\ obj[i].pc = "loop"
    /\ obj[i].loc.iteration <= cfg[i].max_iterations
    /\ Lt(Abs(Sub(obj[i].loc.f_curr, obj[i].loc.f_prev)), Tiny)
\* C27: in Secant, when |f(x1) - f(x0)| < 1e-15 for the two most recent
\* points at the start of an iteration, solve() stops before computing a
\* step: no further function evaluation, no history entry appended, and it
\* returns convergence_achieved false with root the most recent point.
C27_DegenerateSecantStops ==
    [][\A i \in Instances :
          /\ (Degenerate(i) /\ obj'[i] # obj[i]) =>
                 /\ obj'[i] = [obj[i] EXCEPT !.pc = "after_loop"]
                 /\ returned'[i] = returned[i]
          /\ (cfg[i].kind = "Secant" /\ obj[i].pc = "after_loop" /\ obj'[i] # obj[i]) =>
                 /\ Len(returned'[i]) = Len(returned[i]) + 1
                 /\ obj'[i].pc = "idle"
                 /\ ~Last(returned'[i]).convergence_achieved
                 /\ Last(returned'[i]).root = obj[i].loc.x_curr
                 /\ Last(returned'[i]).root = Last(obj[i].iteration_history).x_value
                 /\ Last(observed'[i]).iteration_history = obj[i].iteration_history
                 /\ Last(returned'[i]).function_evaluations = obj[i].function_evaluations
                 /\ Last(observed'[i]).invocations = obj[i].invocations]_vars
\* a Secant has returned from the break after at least one step: its last two
\* history entries have the same f_value and the loop had passes left
C27_Witness ==
    \E i \in Instances : \E k \in Results(i) :
        LET h == observed[i][k].iteration_history
        IN  /\ cfg[i].kind = "Secant"
            /\ ~returned[i][k].convergence_achieved
            /\ Len(h) >= 3
            /\ Last(h).iteration < cfg[i].max_iterations
            /\ h[Len(h)].f_value = h[Len(h) - 1].f_value
            /\ returned[i][k].root = Last(h).x_value


\* C28: every value in the list returned by
\* find_all_polynomial_roots_by_deflation was accepted by the deflation root
\* check: a pass adds the value r of the root finder to the list of roots
\* (the list that is returned) only when |p_k(r)| <= tolerance for the
\* polynomial p_k current in that pass.
C28_ReturnedRootsPassedCheck ==
    [][(/\ poly.op = "find_all_polynomial_roots_by_deflation"
        /\ poly.pc = "loop"
        /\ poly'.pc \in {"loop", "returned"}
        /\ Len(poly'.roots) > Len(poly.roots)) =>
            /\ poly'.pc = "returned" => poly'.ret = poly'.roots
            /\ ~Gt(Abs(horners_rule(poly.current_coeffs, Last(poly'.roots))),
                   poly.tolerance)]_vars


\* C30: for every coefficient list and root value the remainder returned by
\* synthetic_division equals horners_rule at that value, so in
\* deflate_polynomial the second check (remainder exceeds tolerance) never
\* fails once the first (|p(root)| <= tolerance) has passed: the call raises
\* exactly when the first check fails.
C30_RemainderIsHorner ==
    /\ Returned("synthetic_division") =>
           poly.ret[2] = horners_rule(poly.coefficients, poly.x)
    /\ (poly.op = "deflate_polynomial" /\ poly.pc \in {"returned", "raised"}) =>
           (poly.pc = "raised"
               <=> Gt(Abs(horners_rule(poly.coefficients, poly.x)), poly.tolerance))
\* deflate_polynomial has returned for a quadratic or cubic and a value at
\* which the polynomial is not zero: both checks ran on a nonzero remainder
C30_Witness ==
    /\ Returned("deflate_polynomial")
    /\ Len(poly.coefficients) >= 3
    /\ poly.x \notin {0, One}
    /\ horners_rule(poly.coefficients, poly.x) # 0
    /\ synthetic_division(poly.coefficients, poly.x).remainder
           = horners_rule(poly.coefficients, poly.x)


\* C29: find_sign_changes terminates for every interval and every increment
\* or number of subdivisions the constructor accepts: x_current strictly
\* increases at every step of the scan, and b is reached after at most
\* ceil((b - a) / increment) steps.
C29_ScanTerminates ==
    /\ [][(search.pc = "scanning" /\ search'.pc = "scanning") =>
             Lt(search.x_current, search'.x_current)]_vars
    /\ []((search.pc = "scanning" /\ search.step_count > 0) =>
             /\ Gt(search.increment, 0)
             /\ (search.step_count - 1) * search.increment < search.b - search.a)


\* the constructor, the part of solve() before the loop, a pass of the loop
\* and the code after the loop of the solver configured by c
Solver_init(c, s) ==
    CASE c.kind = "Bisection" -> BisectionSolver_init(c, s)
      [] c.kind = "FalsePosition" -> FalsePositionSolver_init(c, s)
      [] c.kind = "NewtonRaphson" -> NewtonRaphsonSolver_init(c, s)
      [] c.kind = "Secant" -> SecantSolver_init(c, s)
      [] c.kind = "FixedPoint" -> FixedPointSolver_init(c, s)
      [] c.kind = "Muller" -> MullerSolver_init(c, s)
Solver_start(c, s) ==
    CASE c.kind = "Bisection" -> BisectionSolver_start(c, s)
      [] c.kind = "FalsePosition" -> FalsePositionSolver_start(c, s)
      [] c.kind = "NewtonRaphson" -> NewtonRaphsonSolver_start(c, s)
      [] c.kind = "Secant" -> SecantSolver_start(c, s)
      [] c.kind = "FixedPoint" -> FixedPointSolver_start(c, s)
      [] c.kind = "Muller" -> MullerSolver_start(c, s)
Solver_iterate(c, s) ==
    CASE c.kind = "Bisection" -> BisectionSolver_iterate(c, s)
      [] c.kind = "FalsePosition" -> FalsePositionSolver_iterate(c, s)
      [] c.kind = "NewtonRaphson" -> NewtonRaphsonSolver_iterate(c, s)
      [] c.kind = "Secant" -> SecantSolver_iterate(c, s)
      [] c.kind = "FixedPoint" -> FixedPointSolver_iterate(c, s)
      [] c.kind = "Muller" -> MullerSolver_iterate(c, s)
Solver_exhausted(c, s) ==
    CASE c.kind = "Bisection" -> BisectionSolver_exhausted(c, s)
      [] c.kind = "FalsePosition" -> FalsePositionSolver_exhausted(c, s)
      [] c.kind = "NewtonRaphson" -> NewtonRaphsonSolver_exhausted(c, s)
      [] c.kind = "Secant" -> SecantSolver_exhausted(c, s)
      [] c.kind = "FixedPoint" -> FixedPointSolver_exhausted(c, s)
      [] c.kind = "Muller" -> MullerSolver_exhausted(c, s)
\* solve() run from the object s to its return or raise with no other
\* instance in the program
RECURSIVE SolveFrom(_, _)
SolveFrom(c, s) ==
    IF s.pc \notin {"loop", "after_loop"} THEN s
    ELSE IF s.pc = "loop" /\ s.loc.iteration <= c.max_iterations
    THEN SolveFrom(c, Solver_iterate(c, s))
    ELSE SolveFrom(c, Solver_exhausted(c, s))
\* a solver constructed from c and solved alone
SolveAlone(c) == SolveFrom(c, Solver_start(c, Entered(Solver_init(c, NewObject))))

\* C21: under any interleaving of the steps of solve() calls on two distinct
\* solver instances, each call returns the SolverResult (history, counters,
\* root, flag) it returns when it runs alone, and a step of one instance
\* changes no counter, history or other state of the other.
C21_IndependentInstances ==
    [][\A i \in Pair :
          /\ Len(returned'[i]) > Len(returned[i]) =>
                 LET r == Last(returned'[i])
                     o == Last(observed'[i])
                     s == SolveAlone(cfg[i])
                 IN  /\ s.pc = "returning"
                     /\ r.root = s.ret.root
                     /\ r.iterations = s.ret.iterations
                     /\ r.convergence_achieved = s.ret.convergence_achieved
                     /\ r.final_error = s.ret.final_error
                     /\ r.function_evaluations = s.function_evaluations
                     /\ r.iteration_history = i
                     /\ o.iteration_history = s.iteration_history
                     /\ o.invocations = s.invocations
          /\ obj'[i] # obj[i] =>
                 \A j \in Pair \ {i} :
                     /\ obj'[j] = obj[j]
                     /\ returned'[j] = returned[j]
                     /\ observed'[j] = observed[j]]_vars
\* two solvers of different kinds are both inside the loop of their second
\* solve() call, each with history entries of its own
C21_Witness ==
    /\ DOMAIN obj = Pair
    /\ cfg[1].kind # cfg[2].kind
    /\ \A i \in Pair :
           /\ obj[i].pc = "loop"
           /\ Len(returned[i]) = 1
           /\ Len(obj[i].iteration_history) >= 2

====
